---- MODULE Spec2Model ----
(***************************************************************************)
(* Model of the file transformation rule engine of reposync/nsync:         *)
(*   - FileUpdateService (core/file-update.ts): update rules with version  *)
(*     strategies over preserved files;                                    *)
(*   - ActionHandler, ConditionEvaluator, AugmentationEngine               *)
(*     (core/augmentation): condition/action rules over YAML/JSON;         *)
(*   - RuleLoader (core/augmentation): the rule sources and their cache;   *)
(*   - FileSyncService.syncDirectories (core/file-update.ts): backup, copy *)
(*     and restore over two directories;                                   *)
(*   - rateLimitedFetch and createRateLimitedGitHubClient                  *)
(*     (utils/rate-limit.ts): timers, queues and pending promises;         *)
(*   - SyncService.execute (core/sync): the external steps per target.     *)
(* Text is modelled as a sequence of one-character strings, so that        *)
(* parsing, splitting, matching and replacing are computed, not assumed.   *)
(* An operator named ...With or ...At takes as parameters the values its   *)
(* caller computed once (the local constants of the source function).      *)
(***************************************************************************)
EXTENDS Integers, Sequences, FiniteSets, TLC

VARIABLES
    uDoc,        \* FileUpdateService: content of the file being updated
    uOrig,       \* content read at the start of updateFile
    uSync,       \* syncVersion
    uChanges,    \* Change[] accumulated by updateFile
    uLast,       \* the last update rule applied and what it saw / returned
    uStep,       \* number of update rules applied so far
    uPc,         \* position in updateFile
    uFile,       \* the file as it is on disk
    uResults,    \* results of the updatePreservedFiles call
    uDry,        \* the same call made with dryRun on a copy of the directory
    aContent,    \* ActionHandler: the content the next apply receives
    aCtx,        \* the AugmentationContext
    aLast,       \* the last apply: its action, its input and its result
    aCount,      \* number of apply calls made
    eRules,      \* AugmentationEngine: this.rules, in load order
    eFile,       \* filePath of the processFile call
    eCtx,        \* context of the call
    eInput,      \* content of the call
    eRun,        \* 1: first call, 2: the call repeated on the first result
    ePc,         \* position in processFile / processRule
    eApplicable, \* applicableRules
    eRule,       \* index of the rule of the for loop of processFile
    eAct,        \* index of the action of the for loop of processRule
    eProcessed,  \* processedContent of processFile
    eContent,    \* processedContent of processRule
    eRuleChanges, \* ruleChanges of processRule
    eApplied,    \* appliedRules
    eChanges,    \* changes
    eLog,        \* what the call did so far: conditions, applies, rule ends
    lSrc,        \* RuleLoader: what each rule source holds on disk
    lRules,      \* this.rules
    lLoaded,     \* this.loaded
    lCalls,      \* the loadRules() calls: position, configs, result
    lResets,     \* number of reset() calls
    dSource,     \* FileSyncService: the files of sourceDir
    dTarget,     \* the files of targetDir
    dBefore,     \* the files of targetDir when syncDirectories was called
    dOptions,    \* preserveFiles and dryRun of the call
    dPc,         \* position in syncDirectories
    dTodo,       \* sourceFiles not yet processed
    dPreserved,  \* preservedFiles, what backupPreservedFiles returned
    dResult,     \* result
    rConfig,     \* rateLimitedFetch: maxRequests and windowMs
    rNow,        \* Date.now()
    rLimiters,   \* rateLimiters, by domain
    rTimers,     \* the setTimeout callbacks not yet run
    rLog,        \* the calls of fetchFn and the windows opened, in order
    rCalls,      \* number of calls of the returned function
    gPending,    \* createRateLimitedGitHubClient: pendingCalls, by endpoint
    gCalls,      \* the promises the client returned
    gFetches,    \* number of fetchFn calls, by endpoint
    sOptions,    \* SyncService.execute: dryRun and the number of targets
    sPc,         \* position in execute / processTargetRepository
    sTarget,     \* index i of the target being processed
    sSourceDir,  \* the local sourceDir of execute
    sDirs,       \* the temporary directories that exist
    sLog,        \* the external steps made so far
    sResults     \* results

uvars == <<uDoc, uOrig, uSync, uChanges, uLast, uStep, uPc,
           uFile, uResults, uDry>>
avars == <<aContent, aCtx, aLast, aCount>>
evars == <<eRules, eFile, eCtx, eInput, eRun, ePc, eApplicable, eRule, eAct,
           eProcessed, eContent, eRuleChanges, eApplied, eChanges, eLog>>
lvars == <<lSrc, lRules, lLoaded, lCalls, lResets>>
dvars == <<dSource, dTarget, dBefore, dOptions, dPc, dTodo, dPreserved, dResult>>
rvars == <<rConfig, rNow, rLimiters, rTimers, rLog, rCalls>>
gvars == <<gPending, gCalls, gFetches>>
svars == <<sOptions, sPc, sTarget, sSourceDir, sDirs, sLog, sResults>>

vars == <<uDoc, uOrig, uSync, uChanges, uLast, uStep, uPc,
          uFile, uResults, uDry,
          aContent, aCtx, aLast, aCount,
          eRules, eFile, eCtx, eInput, eRun, ePc, eApplicable, eRule, eAct,
          eProcessed, eContent, eRuleChanges, eApplied, eChanges, eLog,
          lSrc, lRules, lLoaded, lCalls, lResets,
          dSource, dTarget, dBefore, dOptions, dPc, dTodo, dPreserved, dResult,
          rConfig, rNow, rLimiters, rTimers, rLog, rCalls,
          gPending, gCalls, gFetches,
          sOptions, sPc, sTarget, sSourceDir, sDirs, sLog, sResults>>

----------------------------------------------------------------------------
(* Text helpers *)

Digits == {"0", "1", "2", "3", "4", "5", "6", "7", "8", "9"}

DigitVal(c) ==
    CASE c = "0" -> 0 [] c = "1" -> 1 [] c = "2" -> 2 [] c = "3" -> 3
      [] c = "4" -> 4 [] c = "5" -> 5 [] c = "6" -> 6 [] c = "7" -> 7
      [] c = "8" -> 8 [] c = "9" -> 9

\* \w of a JavaScript regular expression, over the characters the model uses
IsWord(c) == c \in {"a", "b", "l", "p", "t", "v", "x", "z", "_"} \cup Digits

\* [\d.]
IsVerChar(c) == c \in Digits \cup {"."}

\* least element of a non-empty set of numbers, 0 for the empty set
MinOf(S) == IF S = {} THEN 0 ELSE CHOOSE i \in S : \A j \in S : i <= j
MaxOf(S) == IF S = {} THEN 0 ELSE CHOOSE i \in S : \A j \in S : i >= j

\* index of the first occurrence of pat in s; 0 if none
IndexOf(s, pat) ==
    MinOf({i \in 1..(Len(s) - Len(pat) + 1) : SubSeq(s, i, i + Len(pat) - 1) = pat})

\* s with the n characters at i replaced by rep; s itself when i = 0
SpliceAt(s, i, n, rep) ==
    IF i = 0 THEN s
    ELSE SubSeq(s, 1, i - 1) \o rep \o SubSeq(s, i + n, Len(s))

\* String.prototype.replace(pat, rep) with a string pattern: first occurrence only
ReplaceFirst(s, pat, rep) == SpliceAt(s, IndexOf(s, pat), Len(pat), rep)

\* String.prototype.replace(new RegExp(escaped pat, 'g'), rep): every occurrence
RECURSIVE ReplaceAll(_, _, _)
ReplaceAllAt(s, pat, rep, i) ==
    IF i = 0 \/ pat = <<>> THEN s
    ELSE SubSeq(s, 1, i - 1) \o rep
         \o ReplaceAll(SubSeq(s, i + Len(pat), Len(s)), pat, rep)

ReplaceAll(s, pat, rep) == ReplaceAllAt(s, pat, rep, IndexOf(s, pat))

\* String.prototype.split(sep) for a one-character separator
RECURSIVE Split(_, _)
SplitAt(s, sep, i) ==
    IF i = 0 THEN <<s>>
    ELSE <<SubSeq(s, 1, i - 1)>> \o Split(SubSeq(s, i + 1, Len(s)), sep)

Split(s, sep) == SplitAt(s, sep, IndexOf(s, <<sep>>))

\* v.replace(/^v/, '')
StripV(s) == IF s # <<>> /\ Head(s) = "v" THEN Tail(s) ELSE s

RECURSIVE DigitRun(_)
DigitRun(s) ==
    IF s = <<>> \/ Head(s) \notin Digits THEN <<>>
    ELSE <<Head(s)>> \o DigitRun(Tail(s))

RECURSIVE DigitsToNat(_, _)
DigitsToNat(s, acc) ==
    IF s = <<>> THEN acc ELSE DigitsToNat(Tail(s), acc * 10 + DigitVal(Head(s)))

\* a JavaScript number that may be NaN
Num(k) == [nan |-> FALSE, n |-> k]
NaN == [nan |-> TRUE, n |-> 0]

\* parseInt(n): the leading run of digits, NaN when there is none
\* (the model's texts carry no sign and no white space)
parseInt(s) ==
    LET d == DigitRun(s) IN IF d = <<>> THEN NaN ELSE Num(DigitsToNat(d, 0))

----------------------------------------------------------------------------
(* FileUpdateService: version comparison (file-update.ts 566-614) *)

\* p || 0
OrZero(p) == IF p.nan THEN 0 ELSE p.n

\* normalize = v => v.replace(/^v/, '').split('.').map(n => parseInt(n) || 0)
normalize(v) ==
    LET parts == Split(StripV(v), ".")
    IN [i \in 1..Len(parts) |-> OrZero(parseInt(parts[i]))]

\* the body of compareVersions on the two normalized arrays: a missing minor
\* is undefined, and undefined - number is NaN; only the patch is defaulted
\* with || 0
CompareParts(a, b) ==
    LET minorDefA == Len(a) >= 2
        minorDefB == Len(b) >= 2
        minorSame == IF minorDefA /\ minorDefB THEN a[2] = b[2]
                     ELSE minorDefA = minorDefB
        patchA == IF Len(a) >= 3 THEN a[3] ELSE 0
        patchB == IF Len(b) >= 3 THEN b[3] ELSE 0
    IN IF a[1] # b[1] THEN Num(a[1] - b[1])
       ELSE IF ~minorSame
            THEN (IF minorDefA /\ minorDefB THEN Num(a[2] - b[2]) ELSE NaN)
            ELSE Num(patchA - patchB)

\* compareVersions(version1, version2)
compareVersions(version1, version2) ==
    CompareParts(normalize(version1), normalize(version2))

Strategies == {"replace_if_newer", "replace_if_newer_or_equal",
               "always_replace", "never_replace"}

\* the switch of shouldUpdateVersion, c the result of compareVersions
StrategyAllows(strategy, c) ==
    CASE strategy = "always_replace" -> TRUE
      [] strategy = "never_replace" -> FALSE
      [] strategy = "replace_if_newer" -> ~c.nan /\ c.n > 0
      [] strategy = "replace_if_newer_or_equal" -> ~c.nan /\ c.n >= 0
      [] OTHER -> FALSE

\* shouldUpdateVersion(currentVersion, newVersion, strategy = 'replace_if_newer')
shouldUpdateVersion(currentVersion, newVersion, strategy) ==
    StrategyAllows(IF strategy = "undefined" THEN "replace_if_newer" ELSE strategy,
                   compareVersions(newVersion, currentVersion))

\* shouldUpdateValue(currentValue, newValue, strategy = 'always_replace')
shouldUpdateValue(currentValue, newValue, strategy) ==
    IF strategy \in {"always_replace", "undefined"} THEN currentValue # newValue
    ELSE IF strategy = "never_replace" THEN FALSE
    ELSE shouldUpdateVersion(currentValue, newValue, strategy)

\* processTemplate(template, variables): every {key} replaced, in the order of
\* the variables; the template-function pass that follows only rewrites
\* name(args), which no template of the model contains
RECURSIVE processTemplate(_, _, _)
processTemplate(template, names, variables) ==
    IF names = <<>> THEN template
    ELSE processTemplate(
             ReplaceAll(template, <<"{", Head(names), "}">>, variables[Head(names)]),
             Tail(names), variables)

\* the switch of evaluateCondition, comparison the result of compareVersions
OperatorHolds(operator, comparison) ==
    CASE operator = ">" -> ~comparison.nan /\ comparison.n > 0
      [] operator = ">=" -> ~comparison.nan /\ comparison.n >= 0
      [] operator = "=" -> ~comparison.nan /\ comparison.n = 0
      [] operator = "<" -> ~comparison.nan /\ comparison.n < 0
      [] operator = "<=" -> ~comparison.nan /\ comparison.n <= 0
      [] OTHER -> TRUE

\* evaluateCondition(condition, context, syncVersion) of a regex rule
evaluateCondition(condition, names, context) ==
    IF condition.type # "version_compare" THEN TRUE
    ELSE OperatorHolds(condition.operator,
                       compareVersions(processTemplate(condition.new, names, context),
                                       processTemplate(condition.current, names, context)))

----------------------------------------------------------------------------
(* FileUpdateService: the four update rule types (file-update.ts 304-564)   *)
(* A file is [fmt, canon, lines]: fmt "yaml" is text of lines `key: value`, *)
(* fmt "json" is a JSON object of string members; canon tells whether the   *)
(* text is what JSON.stringify(data, null, 2) prints; lines is the ordered  *)
(* list of [k, v], v the value's text.                                      *)

\* maximal run of characters satisfying [\d.] / \w from the head of s
RECURSIVE VerRun(_)
VerRun(s) ==
    IF s = <<>> \/ ~IsVerChar(Head(s)) THEN <<>>
    ELSE <<Head(s)>> \o VerRun(Tail(s))

RECURSIVE WordRun(_)
WordRun(s) ==
    IF s = <<>> \/ ~IsWord(Head(s)) THEN <<>>
    ELSE <<Head(s)>> \o WordRun(Tail(s))

\* value[j] is the "-" and value[j+1..k] the version of a match of
\* (?<prefix>.+?)-(?<version>[\d.]+)\.(?<ext>\w+)
PatternFits(value, j, k) ==
    /\ value[j] = "-"
    /\ k >= j + 1
    /\ \A i \in (j + 1)..k : IsVerChar(value[i])
    /\ k + 2 <= Len(value)
    /\ value[k + 1] = "."
    /\ IsWord(value[k + 2])

PatternGroups(value, j, k) ==
    IF j = 0 THEN [ok |-> FALSE, prefix |-> <<>>, version |-> <<>>, ext |-> <<>>]
    ELSE [ok |-> TRUE,
          prefix |-> SubSeq(value, 1, j - 1),
          version |-> SubSeq(value, j + 1, k),
          ext |-> WordRun(SubSeq(value, k + 2, Len(value)))]

PatternAt(value, j) ==
    PatternGroups(value, j, MaxOf({k \in (j + 1)..Len(value) : PatternFits(value, j, k)}))

\* createRegexFromPattern('{prefix}-{version}.{ext}') matched against a value:
\* unanchored; the match starts at the first character, the prefix is the
\* shortest and the version the longest that let the rest match
createRegexFromPattern(value) ==
    PatternAt(value,
              MinOf({j \in 2..Len(value) :
                        \E k \in (j + 1)..Len(value) : PatternFits(value, j, k)}))

\* the variables a template sees: templateVars of the caller, then sync_version
TemplateNames == <<"tag", "tag_without_v", "sync_version">>
TemplateVars(syncVersion) ==
    [tag |-> <<"v">> \o syncVersion, tag_without_v |-> syncVersion,
     sync_version |-> syncVersion]

Unmodified(content) == [content |-> content, modified |-> FALSE, changes |-> <<>>]

\* the result of a rule that rewrote the lines of a text file
Rewritten(content, r) ==
    [content |-> [content EXCEPT !.lines = r.lines],
     modified |-> r.changes # <<>>,
     changes |-> r.changes]

KeepLine(line) == [lines |-> <<line>>, changes |-> <<>>]
NewLine(line, rule, newValue) ==
    [lines |-> <<[k |-> line.k, v |-> newValue]>>,
     changes |-> <<[rule |-> rule.name, oldValue |-> line.v, newValue |-> newValue]>>]
Joined(one, rest) ==
    [lines |-> one.lines \o rest.lines, changes |-> one.changes \o rest.changes]

\* applyPatternRule on one line: the line of a field of rule.fields whose value
\* matches and whose version the strategy lets through is rewritten
PatternLineWith(line, rule, syncVersion, m) ==
    IF /\ \E i \in 1..Len(rule.fields) : rule.fields[i] = line.k
       /\ line.v # <<>>
       /\ m.ok
       /\ shouldUpdateVersion(m.version, syncVersion, rule.version_strategy)
    THEN NewLine(line, rule, m.prefix \o <<"-">> \o syncVersion \o <<".">> \o m.ext)
    ELSE KeepLine(line)

RECURSIVE PatternLines(_, _, _)
PatternLines(lines, rule, syncVersion) ==
    IF lines = <<>> THEN [lines |-> <<>>, changes |-> <<>>]
    ELSE Joined(PatternLineWith(Head(lines), rule, syncVersion,
                                createRegexFromPattern(Head(lines).v)),
                PatternLines(Tail(lines), rule, syncVersion))

\* applyPatternRule (file-update.ts 333-384); a line of JSON text starts with a
\* quote and is no `field: value` line
applyPatternRule(content, rule, syncVersion) ==
    IF rule.pattern = "undefined" \/ rule.fields = <<>> \/ content.fmt # "yaml"
    THEN Unmodified(content)
    ELSE Rewritten(content, PatternLines(content.lines, rule, syncVersion))

\* index of the member named key, 0 when there is none
MemberIndex(lines, key) == MinOf({i \in 1..Len(lines) : lines[i].k = key})

\* String(oldValue) of a member that may be missing
MemberText(lines, key) ==
    LET i == MemberIndex(lines, key)
    IN IF i = 0 THEN <<"u", "n", "d", "e", "f", "i", "n", "e", "d">> ELSE lines[i].v

\* current[finalKey] = processedValue
SetMember(lines, key, value) ==
    LET i == MemberIndex(lines, key)
    IN IF i = 0 THEN Append(lines, [k |-> key, v |-> value])
       ELSE [lines EXCEPT ![i] = [k |-> key, v |-> value]]

JsonFieldWith(content, rule, oldValue, processedValue) ==
    IF shouldUpdateValue(oldValue, processedValue, rule.version_strategy)
    THEN [content |-> [fmt |-> "json", canon |-> TRUE,
                       lines |-> SetMember(content.lines, rule.path, processedValue)],
          modified |-> TRUE,
          changes |-> <<[rule |-> rule.name, oldValue |-> oldValue,
                         newValue |-> processedValue]>>]
    ELSE Unmodified(content)

\* applyJsonFieldRule (file-update.ts 389-437): JSON.parse throws on text that
\* is not JSON (caught: unmodified); a one-segment path; the result is printed
\* by JSON.stringify
applyJsonFieldRule(content, rule, syncVersion) ==
    IF rule.path = "undefined" \/ rule.value = <<>> \/ content.fmt # "json"
    THEN Unmodified(content)
    ELSE JsonFieldWith(content, rule, MemberText(content.lines, rule.path),
                       processTemplate(rule.value, TemplateNames, TemplateVars(syncVersion)))

\* applyYamlFieldRule on one line: lines matching ^(\s*path\s*):\s*(.+)$
YamlLine(line, rule, processedValue) ==
    IF /\ line.k = rule.path
       /\ line.v # <<>>
       /\ shouldUpdateValue(line.v, processedValue, rule.version_strategy)
    THEN NewLine(line, rule, processedValue)
    ELSE KeepLine(line)

RECURSIVE YamlLines(_, _, _)
YamlLines(lines, rule, processedValue) ==
    IF lines = <<>> THEN [lines |-> <<>>, changes |-> <<>>]
    ELSE Joined(YamlLine(Head(lines), rule, processedValue),
                YamlLines(Tail(lines), rule, processedValue))

\* applyYamlFieldRule (file-update.ts 442-484)
applyYamlFieldRule(content, rule, syncVersion) ==
    IF rule.path = "undefined" \/ rule.value = <<>> \/ content.fmt # "yaml"
    THEN Unmodified(content)
    ELSE Rewritten(content,
             YamlLines(content.lines, rule,
                       processTemplate(rule.value, TemplateNames, TemplateVars(syncVersion))))

RegexNames == TemplateNames \o <<"version">>
RegexGroups(syncVersion, match) ==
    [tag |-> <<"v">> \o syncVersion, tag_without_v |-> syncVersion,
     sync_version |-> syncVersion, version |-> match]

KeepText(text) == [text |-> text, changes |-> <<>>]
NewText(rule, match, replacement) ==
    [text |-> replacement,
     changes |-> <<[rule |-> rule.name, oldValue |-> match, newValue |-> replacement]>>]
JoinedText(one, rest) ==
    [text |-> one.text \o rest.text, changes |-> one.changes \o rest.changes]

\* the replace callback of applyRegexRule for one match: a match the rule's
\* condition rejects is kept, any other is replaced by the processed
\* replacement. rule.version_strategy is not read.
RegexMatchWith(rule, match, groups) ==
    IF rule.condition.type # "undefined"
       /\ ~evaluateCondition(rule.condition, RegexNames, groups)
    THEN KeepText(match)
    ELSE NewText(rule, match, processTemplate(rule.replacement, RegexNames, groups))

\* content.replace(new RegExp('(?<version>[\\d.]+)', 'g'), callback) over one
\* value: every maximal run of [\d.] is a match
RECURSIVE RegexText(_, _, _)
RegexTextAt(text, rule, syncVersion, match) ==
    IF match = <<>>
    THEN JoinedText(KeepText(<<Head(text)>>), RegexText(Tail(text), rule, syncVersion))
    ELSE JoinedText(RegexMatchWith(rule, match, RegexGroups(syncVersion, match)),
                    RegexText(SubSeq(text, Len(match) + 1, Len(text)), rule, syncVersion))

RegexText(text, rule, syncVersion) ==
    IF text = <<>> THEN KeepText(<<>>)
    ELSE RegexTextAt(text, rule, syncVersion, VerRun(text))

RegexLineWith(line, r) ==
    [lines |-> <<[k |-> line.k, v |-> r.text]>>, changes |-> r.changes]

RECURSIVE RegexLines(_, _, _)
RegexLines(lines, rule, syncVersion) ==
    IF lines = <<>> THEN [lines |-> <<>>, changes |-> <<>>]
    ELSE Joined(RegexLineWith(Head(lines), RegexText(Head(lines).v, rule, syncVersion)),
                RegexLines(Tail(lines), rule, syncVersion))

\* applyRegexRule (file-update.ts 489-533); only the values of the model's
\* files hold digits or dots
applyRegexRule(content, rule, syncVersion) ==
    IF rule.regex = "undefined" \/ rule.replacement = <<>>
    THEN Unmodified(content)
    ELSE Rewritten(content, RegexLines(content.lines, rule, syncVersion))

----------------------------------------------------------------------------
(* FileUpdateService.updatePreservedFiles / updateFile (file-update.ts      *)
(* 166-203, 263-328) on one file of the target directory                    *)

\* the most update rules one updatePreservedFiles call applies, and the most
\* preservation rules of this.rules that match the file
MaxUpdateRules == 2
MaxFileRules == 2

\* the texts of the model: versions, and artifact names that embed one
Text ==
    [v100 |-> <<"1", ".", "0", ".", "0">>,
     v200 |-> <<"2", ".", "0", ".", "0">>,
     v1 |-> <<"1">>,
     v11 |-> <<"1", ".", "1">>,
     v10 |-> <<"1", ".", "0">>,
     latest |-> <<"l", "a", "t">>,
     art100 |-> <<"a", "p", "-", "1", ".", "0", ".", "0", ".", "z">>,
     art200 |-> <<"a", "p", "-", "2", ".", "0", ".", "0", ".", "z">>,
     artlatest |-> <<"a", "p", "-", "l", "a", "t", ".", "z">>,
     art100tz |-> <<"a", "p", "-", "1", ".", "0", ".", "0", ".", "t", ".", "z">>,
     art100in100 |-> <<"1", ".", "0", ".", "0", "-", "1", ".", "0", ".", "0", ".", "z">>]

\* version texts a file may hold and a sync may bring
CurrentVersions == {Text.v100, Text.v200, Text.v1, Text.v10, Text.latest}
SyncVersions == {Text.v100, Text.v200, Text.v11, Text.v1}

UDocs ==
    {[fmt |-> "yaml", canon |-> TRUE, lines |-> <<[k |-> "version", v |-> c]>>]
        : c \in CurrentVersions}
    \cup {[fmt |-> "json", canon |-> b, lines |-> <<[k |-> "version", v |-> c]>>]
        : c \in CurrentVersions, b \in BOOLEAN}
    \cup {[fmt |-> "yaml", canon |-> TRUE,
           lines |-> <<[k |-> "remote_artifact", v |-> a], [k |-> "other_field", v |-> <<"x">>]>>]
        : a \in {Text.art100, Text.art200, Text.artlatest, Text.art100tz}}

NoCondition == [type |-> "undefined", operator |-> "undefined",
                current |-> <<>>, new |-> <<>>]

BlankRule == [name |-> "undefined", type |-> "undefined", pattern |-> "undefined",
              fields |-> <<>>, version_strategy |-> "undefined", path |-> "undefined",
              value |-> <<>>, regex |-> "undefined", replacement |-> <<>>,
              condition |-> NoCondition]

UpdateRules ==
    {[BlankRule EXCEPT !.name = "artifact_versions", !.type = t,
                       !.pattern = "{prefix}-{version}.{ext}",
                       !.fields = <<"remote_artifact">>, !.version_strategy = s]
        : t \in {"pattern", "undefined"}, s \in Strategies \cup {"undefined"}}
    \cup {[BlankRule EXCEPT !.name = "package_version", !.type = "json_field",
                            !.path = "version", !.value = <<"{", "sync_version", "}">>,
                            !.version_strategy = s]
        : s \in Strategies \cup {"undefined"}}
    \cup {[BlankRule EXCEPT !.name = "chart_version", !.type = "yaml_field",
                            !.path = "version", !.value = <<"{", "tag_without_v", "}">>,
                            !.version_strategy = s]
        : s \in Strategies \cup {"undefined"}}
    \cup {[BlankRule EXCEPT !.name = "base_image", !.type = "regex",
                            !.regex = "(?<version>[\\d.]+)",
                            !.replacement = <<"{", "sync_version", "}">>,
                            !.version_strategy = s, !.condition = c]
        : s \in {"always_replace", "never_replace"},
          c \in {NoCondition,
                 [type |-> "version_compare", operator |-> ">",
                  current |-> <<"{", "version", "}">>,
                  new |-> <<"{", "sync_version", "}">>]}}
    \cup {[BlankRule EXCEPT !.name = "mystery", !.type = "xml_field"]}

\* const ruleType = rule.type || 'pattern'
RuleType(rule) == IF rule.type = "undefined" THEN "pattern" ELSE rule.type

UIdle ==
    /\ uDoc = "idle" /\ uOrig = "idle" /\ uSync = "idle" /\ uChanges = <<>>
    /\ uLast = "idle" /\ uStep = 0 /\ uPc = "idle"
    /\ uFile = "idle" /\ uResults = <<>> /\ uDry = "idle"

\* updatePreservedFiles(targetDir, syncVersion, templateVars, dryRun) is at
\* the file of its first preservation rule, which updateFile has read. uDry
\* is the call with dryRun true on a directory that holds the same file: its
\* disk, the content updateFile holds, its changes and its results.
UInit ==
    /\ uFile \in UDocs
    /\ uDoc = uFile
    /\ uOrig = uFile
    /\ uSync \in SyncVersions
    /\ uChanges = <<>>
    /\ uLast = [rule |-> BlankRule, before |-> uDoc, result |-> Unmodified(uDoc)]
    /\ uStep = 0
    /\ uPc = "rules"
    /\ uResults = <<>>
    /\ uDry = [was |-> uFile, file |-> uFile, doc |-> uFile, changes |-> <<>>,
               results |-> <<>>]

\* one turn of `for (const updateRule of rule.update_rules)`
UTake(rule, ruleResult, dryResult) ==
    /\ uPc = "rules"
    /\ uStep < MaxUpdateRules
    /\ uStep' = uStep + 1
    /\ uLast' = [rule |-> rule, before |-> uDoc, result |-> ruleResult]
    /\ uDoc' = IF ruleResult.modified THEN ruleResult.content ELSE uDoc
    /\ uChanges' = IF ruleResult.modified THEN uChanges \o ruleResult.changes ELSE uChanges
    /\ uDry' = IF dryResult.modified
               THEN [uDry EXCEPT !.doc = dryResult.content,
                                 !.changes = uDry.changes \o dryResult.changes]
               ELSE uDry
    /\ UNCHANGED <<uOrig, uSync, uPc, uFile, uResults>>
    /\ UNCHANGED <<avars, evars, lvars, dvars, rvars, gvars, svars>>

UApplyPattern ==
    \E rule \in UpdateRules :
        /\ RuleType(rule) = "pattern"
        /\ UTake(rule, applyPatternRule(uDoc, rule, uSync),
                       applyPatternRule(uDry.doc, rule, uSync))

UApplyJsonField ==
    \E rule \in UpdateRules :
        /\ RuleType(rule) = "json_field"
        /\ UTake(rule, applyJsonFieldRule(uDoc, rule, uSync),
                       applyJsonFieldRule(uDry.doc, rule, uSync))

UApplyYamlField ==
    \E rule \in UpdateRules :
        /\ RuleType(rule) = "yaml_field"
        /\ UTake(rule, applyYamlFieldRule(uDoc, rule, uSync),
                       applyYamlFieldRule(uDry.doc, rule, uSync))

UApplyRegex ==
    \E rule \in UpdateRules :
        /\ RuleType(rule) = "regex"
        /\ UTake(rule, applyRegexRule(uDoc, rule, uSync),
                       applyRegexRule(uDry.doc, rule, uSync))

\* the FileUpdateResult updateFile returns
FileResult(changes) ==
    [modified |-> Len(changes) > 0, changes |-> changes, error |-> FALSE]

\* the result the catch of updatePreservedFiles pushes
FailedResult == [modified |-> FALSE, changes |-> <<>>, error |-> TRUE]

\* default: throw new RepoSyncError('Unknown update rule type'); the catch of
\* updatePreservedFiles pushes a result with the error
UApplyUnknown ==
    \E rule \in UpdateRules :
        /\ RuleType(rule) \notin {"pattern", "json_field", "yaml_field", "regex"}
        /\ uPc = "rules"
        /\ uStep < MaxUpdateRules
        /\ uPc' = "threw"
        /\ uLast' = [rule |-> rule, before |-> uDoc, result |-> Unmodified(uDoc)]
        /\ uResults' = Append(uResults, FailedResult)
        /\ uDry' = [uDry EXCEPT !.results = Append(uDry.results, FailedResult)]
        /\ UNCHANGED <<uDoc, uOrig, uSync, uChanges, uStep, uFile>>
        /\ UNCHANGED <<avars, evars, lvars, dvars, rvars, gvars, svars>>

\* if (changes.length > 0 && !dryRun) { await writeFile(...) }
writes(changes, dryRun) == Len(changes) > 0 /\ ~dryRun

\* the loop ends: updateFile writes the file unless dryRun and returns, and
\* updatePreservedFiles pushes the result
UReturn ==
    /\ uPc = "rules"
    /\ uPc' = "done"
    /\ uFile' = IF writes(uChanges, FALSE) THEN uDoc ELSE uFile
    /\ uResults' = Append(uResults, FileResult(uChanges))
    /\ uDry' = [uDry EXCEPT !.file = IF writes(uDry.changes, TRUE) THEN uDry.doc ELSE uDry.file,
                            !.results = Append(uDry.results, FileResult(uDry.changes))]
    /\ UNCHANGED <<uDoc, uOrig, uSync, uChanges, uLast, uStep>>
    /\ UNCHANGED <<avars, evars, lvars, dvars, rvars, gvars, svars>>

\* `for (const rule of this.rules)`: the next preservation rule matches the
\* same file, which updateFile reads again
UNextRule ==
    /\ uPc \in {"done", "threw"}
    /\ Len(uResults) < MaxFileRules
    /\ uStep < MaxUpdateRules
    /\ uPc' = "rules"
    /\ uDoc' = uFile
    /\ uOrig' = uFile
    /\ uChanges' = <<>>
    /\ uDry' = [uDry EXCEPT !.doc = uDry.file, !.changes = <<>>]
    /\ UNCHANGED <<uSync, uLast, uStep, uFile, uResults>>
    /\ UNCHANGED <<avars, evars, lvars, dvars, rvars, gvars, svars>>

UNext ==
    \/ UApplyPattern
    \/ UApplyJsonField
    \/ UApplyYamlField
    \/ UApplyRegex
    \/ UApplyUnknown
    \/ UReturn
    \/ UNextRule

----------------------------------------------------------------------------
(* Documents of the augmentation engine.                                    *)
(* A content is [kind, canon, data]: kind "json" is JSON text, "yaml" block *)
(* YAML, "flow" a YAML flow mapping (starts with { but is not JSON),        *)
(* "scalar" text that YAML reads as one string, "opaque" text neither       *)
(* parser accepts. canon tells whether the text is exactly what the         *)
(* serializer prints for data. data is a tree of tagged values.             *)

Undef == [t |-> "undef"]
Str(s) == [t |-> "str", s |-> s]
Arr(a) == [t |-> "arr", a |-> a]
Obj(m) == [t |-> "obj", m |-> m]

\* typeof v === 'object' for a value that is not null
IsObject(v) == v.t \in {"obj", "arr"}

\* index of member k of an object, 0 when it has none (arrays of the model
\* are never asked for an index)
IndexOfMember(current, k) ==
    IF current.t # "obj" THEN 0
    ELSE MinOf({i \in 1..Len(current.m) : current.m[i].k = k})

\* k in current
HasMember(current, k) == IndexOfMember(current, k) # 0

\* current[k]
Member(current, k) ==
    LET i == IndexOfMember(current, k) IN IF i = 0 THEN Undef ELSE current.m[i].v

\* current[k] = value; a named property set on an array is not printed
PutMember(current, k, value) ==
    LET i == IndexOfMember(current, k)
    IN IF current.t # "obj" THEN current
       ELSE IF i = 0 THEN Obj(Append(current.m, [k |-> k, v |-> value]))
       ELSE Obj([current.m EXCEPT ![i] = [k |-> k, v |-> value]])

\* key.split('.') of a key written as segments separated by "."
KeySegments(key) ==
    LET parts == Split(key, ".")
    IN [i \in 1..Len(parts) |-> IF parts[i] = <<>> THEN "" ELSE parts[i][1]]

RECURSIVE WalkValue(_, _)
WalkValue(current, keys) ==
    IF keys = <<>> THEN current
    ELSE IF ~IsObject(current) THEN Undef
    ELSE WalkValue(Member(current, Head(keys)), Tail(keys))

\* getNestedValue(obj, key) (action-handler.ts 244-258, condition-evaluator.ts 132-146)
getNestedValue(obj, key) ==
    IF ~IsObject(obj) THEN Undef ELSE WalkValue(obj, KeySegments(key))

RECURSIVE WalkHas(_, _)
WalkHas(current, keys) ==
    IF keys = <<>> THEN TRUE
    ELSE IF ~IsObject(current) THEN FALSE
    ELSE IF ~HasMember(current, Head(keys)) THEN FALSE
    ELSE WalkHas(Member(current, Head(keys)), Tail(keys))

\* hasNestedKey(obj, key) (condition-evaluator.ts 113-130)
hasNestedKey(obj, key) ==
    IF ~IsObject(obj) THEN FALSE ELSE WalkHas(obj, KeySegments(key))

\* the loop of setNestedValue: a missing or non-object step becomes {}
RECURSIVE SetPath(_, _, _)
SetPathWith(current, keys, value, child) ==
    PutMember(current, Head(keys),
              SetPath(IF IsObject(child) THEN child ELSE Obj(<<>>), Tail(keys), value))

SetPath(current, keys, value) ==
    IF Len(keys) = 1 THEN PutMember(current, keys[1], value)
    ELSE SetPathWith(current, keys, value, Member(current, Head(keys)))

\* setNestedValue(obj, key, value) (action-handler.ts 260-275)
setNestedValue(obj, key, value) ==
    IF ~IsObject(obj) THEN obj ELSE SetPath(obj, KeySegments(key), value)

\* parseYAML(content): YAML reads JSON and flow text too; throws on opaque text
parseYAML(content) ==
    IF content.kind = "opaque" THEN [threw |-> TRUE, data |-> Undef]
    ELSE [threw |-> FALSE, data |-> content.data]

\* safeParseJSON(content) (json-utils.ts 3-24): never throws, undefined when
\* the text is not JSON
safeParseJSON(content) ==
    IF content.kind = "json" THEN content.data ELSE Undef

\* trimmed.startsWith('{') || trimmed.startsWith('[')
LooksLikeJson(content) == content.kind \in {"json", "flow"}

\* parseContent(content) (action-handler.ts 218-242)
parseContent(content) ==
    IF LooksLikeJson(content)
    THEN [data |-> safeParseJSON(content), isYaml |-> FALSE]
    ELSE LET y == parseYAML(content)
         IN IF ~y.threw THEN [data |-> y.data, isYaml |-> TRUE]
            ELSE [data |-> safeParseJSON(content), isYaml |-> FALSE]

\* variant: the document is always printed as YAML
SerializeYaml(data, isYaml) == [kind |-> "yaml", canon |-> TRUE, data |-> data]

\* isYaml ? stringifyYAML(data) : JSON.stringify(data, null, 2)
Serialize(data, isYaml) ==
    [kind |-> IF isYaml THEN "yaml" ELSE "json", canon |-> TRUE, data |-> data]

----------------------------------------------------------------------------
(* semver.valid / semver.gt as used by updateVersionInValue                 *)

AllDigits(s) == s # <<>> /\ \A i \in 1..Len(s) : s[i] \in Digits

\* a numeric identifier of a semantic version: digits, no leading zero
NumericId(s) == AllDigits(s) /\ (Len(s) = 1 \/ s[1] # "0")

\* semver.valid(v): MAJOR.MINOR.PATCH, an optional leading v
semverValid(v) ==
    LET parts == Split(StripV(v), ".")
    IN Len(parts) = 3 /\ \A i \in 1..3 : NumericId(parts[i])

\* semver.gt(a, b) of two valid versions
GtParts(x, y) ==
    \/ x[1] > y[1]
    \/ x[1] = y[1] /\ x[2] > y[2]
    \/ x[1] = y[1] /\ x[2] = y[2] /\ x[3] > y[3]
semverGt(a, b) == GtParts(normalize(a), normalize(b))

----------------------------------------------------------------------------
(* ActionHandler (action-handler.ts)                                        *)
(* An action is [type, key, value, version_pattern, version_source,         *)
(* comparison]; key is text with "." between segments; value is a tagged    *)
(* value or Undef. A result is [threw, content, change], change a list of   *)
(* zero or one ChangeDescription.                                           *)

\* the regular expressions of the model; invalid is none and makes RegExp throw
Regex ==
    [artifact |-> "(.*-)([0-9]+\\.[0-9]+\\.[0-9]+)(\\.z)$",
     digits |-> "([0-9.]+)$",
     invalid |-> "("]

\* [0-9]+\.[0-9]+\.[0-9]+
IsTriple(s) ==
    LET parts == Split(s, ".") IN Len(parts) = 3 /\ \A i \in 1..3 : AllDigits(parts[i])

\* what match returns: ok tells a match from null, g1 and g2 are the first two
\* capture groups (<<>> when the group is missing), threw an invalid pattern
NoMatch == [threw |-> FALSE, ok |-> FALSE, g1 |-> <<>>, g2 |-> <<>>]

\* (.*-)([0-9]+\.[0-9]+\.[0-9]+)(\.z)$ : j is the last "-" that a version and
\* .z follow, 0 when there is none
MatchArtifact(value, j) ==
    IF j = 0 THEN NoMatch
    ELSE [threw |-> FALSE, ok |-> TRUE,
          g1 |-> SubSeq(value, 1, j), g2 |-> SubSeq(value, j + 1, Len(value) - 2)]

\* ([0-9.]+)$ : i starts the longest run of [0-9.] that ends the value
MatchDigits(value, i) ==
    IF i = 0 THEN NoMatch
    ELSE [threw |-> FALSE, ok |-> TRUE,
          g1 |-> SubSeq(value, i, Len(value)), g2 |-> <<>>]

\* currentValue.match(action.version_pattern) for the patterns of the model; a
\* pattern that is no regular expression makes match throw
MatchVersionPattern(pattern, value) ==
    CASE pattern = Regex.artifact ->
            MatchArtifact(value,
                MaxOf({j \in 1..(Len(value) - 3) :
                          /\ value[j] = "-"
                          /\ value[Len(value) - 1] = "."
                          /\ value[Len(value)] = "z"
                          /\ IsTriple(SubSeq(value, j + 1, Len(value) - 2))}))
      [] pattern = Regex.digits ->
            MatchDigits(value,
                MinOf({i \in 1..Len(value) :
                          \A k \in i..Len(value) : IsVerChar(value[k])}))
      [] OTHER -> [threw |-> TRUE, ok |-> FALSE, g1 |-> <<>>, g2 |-> <<>>]

\* getVersionFromSource(source, context); <<>> stands for null
getVersionFromSource(source, context) ==
    CASE source = "git_tag" -> StripV(context.gitTag)
      [] source = "package_json" -> context.sourceVersion
      [] source = "literal" -> <<>>
      [] OTHER -> StripV(context.gitTag)

Same(content) == [threw |-> FALSE, content |-> content, change |-> <<>>]
Threw(content) == [threw |-> TRUE, content |-> content, change |-> <<>>]

\* the tail shared by the four mutating actions: set the value, print the
\* document in the format it was read in, describe the change
Written(action, p, oldValue, newValue) ==
    [threw |-> FALSE,
     content |-> Serialize(setNestedValue(p.data, action.key, newValue), p.isYaml),
     change |-> <<[rule |-> action.type, action |-> action.type, key |-> action.key,
                   oldValue |-> oldValue, newValue |-> newValue]>>]

\* updateVersionInValue from the comparison on (action-handler.ts 73-101)
UpdateVersionTo(action, content, p, currentValue, currentVersion, newVersion) ==
    IF /\ action.comparison = "greater_than"
       /\ (~semverValid(currentVersion) \/ ~semverValid(newVersion))
    THEN Same(content)
    ELSE IF action.comparison = "greater_than" /\ ~semverGt(newVersion, currentVersion)
    THEN Same(content)
    ELSE Written(action, p, currentValue,
                 Str(ReplaceFirst(currentValue.s, currentVersion, newVersion)))

\* ... from the match on (action-handler.ts 59-71): the version is the second
\* group, or the first when the second is empty
UpdateVersionMatched(action, content, p, currentValue, versionMatch, newVersion) ==
    IF versionMatch.threw THEN Threw(content)
    ELSE IF ~versionMatch.ok THEN Same(content)
    ELSE IF newVersion = <<>> THEN Same(content)
    ELSE UpdateVersionTo(action, content, p, currentValue,
                         IF versionMatch.g2 # <<>> THEN versionMatch.g2 ELSE versionMatch.g1,
                         newVersion)

UpdateVersionAt(action, content, context, p, currentValue) ==
    IF currentValue.t # "str" THEN Same(content)
    ELSE UpdateVersionMatched(action, content, p, currentValue,
                              MatchVersionPattern(action.version_pattern, currentValue.s),
                              getVersionFromSource(action.version_source, context))

UpdateVersionParsed(action, content, context, p) ==
    IF ~IsObject(p.data) THEN Same(content)
    ELSE UpdateVersionAt(action, content, context, p, getNestedValue(p.data, action.key))

\* updateVersionInValue (action-handler.ts 40-102)
updateVersionInValue(action, content, context) ==
    IF action.key = <<>> \/ action.version_pattern = "undefined" THEN Same(content)
    ELSE UpdateVersionParsed(action, content, context, parseContent(content))

ReplaceValueParsed(action, content, p) ==
    IF ~IsObject(p.data) THEN Same(content)
    ELSE Written(action, p, getNestedValue(p.data, action.key), action.value)

\* replaceValue (action-handler.ts 104-133): no comparison with the old value
replaceValue(action, content, context) ==
    IF action.key = <<>> \/ action.value = Undef THEN Same(content)
    ELSE ReplaceValueParsed(action, content, parseContent(content))

SetValueParsed(action, content, p) ==
    IF ~IsObject(p.data) THEN Same(content)
    ELSE IF getNestedValue(p.data, action.key) # Undef THEN Same(content)
    ELSE Written(action, p, Undef, action.value)

\* setValue (action-handler.ts 135-169): only when nothing is at the key
setValue(action, content, context) ==
    IF action.key = <<>> \/ action.value = Undef THEN Same(content)
    ELSE SetValueParsed(action, content, parseContent(content))

\* if (!Array.isArray(currentArray)) currentArray = []; then the value is added
AppendAt(action, content, p, found) ==
    LET currentArray == IF found.t = "arr" THEN found ELSE Arr(<<>>)
    IN Written(action, p, currentArray, Arr(Append(currentArray.a, action.value)))

AppendParsed(action, content, p) ==
    IF ~IsObject(p.data) THEN Same(content)
    ELSE AppendAt(action, content, p, getNestedValue(p.data, action.key))

\* appendToArray (action-handler.ts 171-205): appends whatever the array holds
appendToArray(action, content, context) ==
    IF action.key = <<>> \/ action.value = Undef THEN Same(content)
    ELSE AppendParsed(action, content, parseContent(content))

\* customAction (action-handler.ts 207-216)
customAction(action, content, context) == Same(content)

ActionTypes == {"update_version_in_value", "replace_value", "set_value",
                "append_to_array", "custom"}

\* the switch of apply, inside its try block
Dispatch(action, content, context) ==
    CASE action.type = "update_version_in_value" -> updateVersionInValue(action, content, context)
      [] action.type = "replace_value" -> replaceValue(action, content, context)
      [] action.type = "set_value" -> setValue(action, content, context)
      [] action.type = "append_to_array" -> appendToArray(action, content, context)
      [] action.type = "custom" -> customAction(action, content, context)
      [] OTHER -> Same(content)

Caught(content, r) == IF r.threw THEN Same(content) ELSE r

\* variant: an unknown action type is an error that apply lets through
applyRethrowing(action, content, context) ==
    IF action.type \notin ActionTypes THEN Threw(content)
    ELSE Caught(content, Dispatch(action, content, context))

\* ActionHandler.apply (action-handler.ts 7-38): whatever is thrown inside is
\* caught and the content returned as it came
apply(action, content, context) == Caught(content, Dispatch(action, content, context))

----------------------------------------------------------------------------
(* ActionHandler.apply called on its own, a few times in a row              *)

\* the number of apply calls made one after the other
MaxApplies == 2

\* the keys the actions and conditions of the model name
Key ==
    [version |-> <<"version">>, artifact |-> <<"remote_artifact">>, tags |-> <<"tags">>,
     env |-> <<"environment">>, imageTag |-> <<"image", ".", "tag">>,
     versionMajor |-> <<"version", ".", "major">>]

D_artifact(a) == Obj(<<[k |-> "remote_artifact", v |-> Str(a)],
                       [k |-> "other_config", v |-> Str(<<"x">>)]>>)
D_package(v) == Obj(<<[k |-> "name", v |-> Str(<<"a", "p">>)],
                      [k |-> "version", v |-> Str(v)],
                      [k |-> "tags", v |-> Arr(<<Str(<<"x">>)>>)]>>)
D_image == Obj(<<[k |-> "image", v |-> Obj(<<[k |-> "tag", v |-> Str(<<"v">> \o Text.v100)]>>)]>>)

\* the contents handed to the engine: hand-written YAML and JSON (not always
\* in the serializer's layout), a flow mapping, a bare string, broken text
Contents ==
    {[kind |-> "yaml", canon |-> b, data |-> D_artifact(a)]
        : a \in {Text.art100, Text.art200}, b \in BOOLEAN}
    \cup {[kind |-> "yaml", canon |-> TRUE, data |-> D_artifact(a)]
        : a \in {Text.artlatest, Text.art100in100}}
    \cup {[kind |-> "json", canon |-> b, data |-> D_package(v)]
        : v \in {Text.v100, Text.v10}, b \in BOOLEAN}
    \cup {[kind |-> "json", canon |-> TRUE, data |-> D_image],
          [kind |-> "flow", canon |-> FALSE, data |-> D_package(Text.v100)],
          [kind |-> "scalar", canon |-> TRUE, data |-> Str(<<"x">>)],
          [kind |-> "opaque", canon |-> FALSE, data |-> Undef]}

Contexts ==
    {[gitTag |-> g, sourceVersion |-> <<>>]
        : g \in {<<"v">> \o Text.v200, <<"v">> \o Text.v100, Text.v11, <<>>}}

BlankAction == [type |-> "undefined", key |-> <<>>, value |-> Undef,
                version_pattern |-> "undefined", version_source |-> "undefined",
                comparison |-> "undefined"]

Actions ==
    {[BlankAction EXCEPT !.type = "update_version_in_value", !.key = Key.artifact,
                         !.version_pattern = Regex.artifact, !.version_source = "git_tag",
                         !.comparison = c]
        : c \in {"greater_than", "always", "undefined"}}
    \cup {[BlankAction EXCEPT !.type = "update_version_in_value", !.key = Key.version,
                              !.version_pattern = p, !.comparison = "greater_than"]
        : p \in {Regex.digits, Regex.invalid}}
    \cup {[BlankAction EXCEPT !.type = "update_version_in_value", !.key = Key.imageTag,
                              !.version_pattern = Regex.digits, !.version_source = "literal"]}
    \cup {[BlankAction EXCEPT !.type = "replace_value", !.key = Key.version, !.value = v]
        : v \in {Str(Text.v100), Str(Text.v200), Undef}}
    \cup {[BlankAction EXCEPT !.type = "replace_value", !.key = Key.version, !.value = Str(v)]
        : v \in {<<"{", "tag_without_v", "}">>, <<"{", "{", "version", "}", "}">>}}
    \cup {[BlankAction EXCEPT !.type = "replace_value", !.key = Key.versionMajor,
                              !.value = Str(Text.v1)]}
    \cup {[BlankAction EXCEPT !.type = "set_value", !.key = k, !.value = Str(<<"p">>)]
        : k \in {Key.env, Key.version}}
    \cup {[BlankAction EXCEPT !.type = "append_to_array", !.key = k, !.value = Str(<<"x">>)]
        : k \in {Key.tags, Key.version}}
    \cup {[BlankAction EXCEPT !.type = "custom"]}
    \cup {[BlankAction EXCEPT !.type = "delete_key", !.key = Key.version]}

AIdle ==
    /\ aContent = "idle" /\ aCtx = "idle" /\ aLast = "idle" /\ aCount = 0

AInit ==
    /\ aContent \in Contents
    /\ aCtx \in Contexts
    /\ aLast = [action |-> BlankAction, before |-> aContent, result |-> Same(aContent)]
    /\ aCount = 0

\* await handler.apply(action, content, filePath, context), then the returned
\* content is what the next call receives
ATakeWith(action, result) ==
    /\ aCount < MaxApplies
    /\ aLast' = [action |-> action, before |-> aContent, result |-> result]
    /\ aContent' = result.content
    /\ aCount' = aCount + 1
    /\ UNCHANGED aCtx
    /\ UNCHANGED <<uvars, evars, lvars, dvars, rvars, gvars, svars>>

ATake(action) == ATakeWith(action, apply(action, aContent, aCtx))

AUpdateVersionInValue ==
    \E action \in Actions : action.type = "update_version_in_value" /\ ATake(action)

AReplaceValue ==
    \E action \in Actions : action.type = "replace_value" /\ ATake(action)

ASetValue ==
    \E action \in Actions : action.type = "set_value" /\ ATake(action)

AAppendToArray ==
    \E action \in Actions : action.type = "append_to_array" /\ ATake(action)

ACustom ==
    \E action \in Actions : action.type = "custom" /\ ATake(action)

AUnknown ==
    \E action \in Actions : action.type \notin ActionTypes /\ ATake(action)

ANext ==
    \/ AUpdateVersionInValue
    \/ AReplaceValue
    \/ ASetValue
    \/ AAppendToArray
    \/ ACustom
    \/ AUnknown

----------------------------------------------------------------------------
(* ConditionEvaluator (condition-evaluator.ts)                              *)
(* A condition is [type, key, pattern]; key <<>> and pattern "undefined"    *)
(* stand for a missing field.                                               *)

\* variant: a document that does not parse counts as holding the key
evaluateYamlHasKeyLenient(condition, content) ==
    IF condition.key = <<>> THEN FALSE
    ELSE LET y == parseYAML(content)
         IN IF y.threw THEN TRUE ELSE hasNestedKey(y.data, condition.key)

\* evaluateYamlHasKey (condition-evaluator.ts 39-48)
evaluateYamlHasKey(condition, content) ==
    IF condition.key = <<>> THEN FALSE
    ELSE LET y == parseYAML(content)
         IN IF y.threw THEN FALSE ELSE hasNestedKey(y.data, condition.key)

\* evaluateJsonHasKey (condition-evaluator.ts 50-60)
evaluateJsonHasKey(condition, content) ==
    IF condition.key = <<>> THEN FALSE
    ELSE hasNestedKey(safeParseJSON(content), condition.key)

\* new RegExp(condition.pattern).test(value); a pattern that is no regular
\* expression throws, which evaluateValueMatches catches (a match that threw
\* is not ok)
ValueMatchesAt(condition, value) ==
    IF value.t # "str" THEN FALSE
    ELSE MatchVersionPattern(condition.pattern, value.s).ok

\* evaluateValueMatches (condition-evaluator.ts 62-93); the format detection is
\* the one of ActionHandler.parseContent
evaluateValueMatches(condition, content) ==
    IF condition.key = <<>> \/ condition.pattern = "undefined" THEN FALSE
    ELSE ValueMatchesAt(condition, getNestedValue(parseContent(content).data, condition.key))

\* ConditionEvaluator.evaluate (condition-evaluator.ts 6-37)
evaluate(condition, content) ==
    CASE condition.type = "yaml_has_key" -> evaluateYamlHasKey(condition, content)
      [] condition.type = "json_has_key" -> evaluateJsonHasKey(condition, content)
      [] condition.type = "value_matches" -> evaluateValueMatches(condition, content)
      [] condition.type = "file_exists" -> TRUE
      [] condition.type = "custom" -> FALSE
      [] OTHER -> FALSE

----------------------------------------------------------------------------
(* AugmentationEngine (augmentation-engine.ts)                              *)
(* A rule is [name, target_files, conditions, actions]. A path and a glob   *)
(* are texts whose name parts are single tokens: <<"charts", "/", "values", *)
(* ".", "yaml">>, <<"*", ".", "yaml">>.                                     *)

\* filePath.split('/').pop() || filePath
fileName(filePath) ==
    LET i == MaxOf({j \in 1..Len(filePath) : filePath[j] = "/"})
    IN IF i = Len(filePath) THEN filePath ELSE SubSeq(filePath, i + 1, Len(filePath))

\* a glob without braces or classes against a name: * is any run without "/"
RECURSIVE GlobMatch(_, _)
GlobMatch(name, pattern) ==
    IF pattern = <<>> THEN name = <<>>
    ELSE IF Head(pattern) = "*"
    THEN \E n \in 0..Len(name) :
            /\ \A i \in 1..n : name[i] # "/"
            /\ GlobMatch(SubSeq(name, n + 1, Len(name)), Tail(pattern))
    ELSE /\ name # <<>>
         /\ Head(name) = Head(pattern)
         /\ GlobMatch(Tail(name), Tail(pattern))

\* minimatch(fileName, pattern): a leading * does not match a dot file
minimatch(name, pattern) ==
    /\ ~(pattern # <<>> /\ Head(pattern) = "*" /\ name # <<>> /\ Head(name) = ".")
    /\ GlobMatch(name, pattern)

\* variant: every pattern of the rule has to match (every in place of some)
RECURSIVE getApplicableRulesEvery(_, _)
getApplicableRulesEvery(rules, name) ==
    IF rules = <<>> THEN <<>>
    ELSE (IF \A i \in 1..Len(Head(rules).target_files) :
                minimatch(name, Head(rules).target_files[i])
          THEN <<Head(rules)>> ELSE <<>>)
         \o getApplicableRulesEvery(Tail(rules), name)

\* getApplicableRules(fileName) (augmentation-engine.ts 288-292)
RECURSIVE getApplicableRules(_, _)
getApplicableRules(rules, name) ==
    IF rules = <<>> THEN <<>>
    ELSE (IF \E i \in 1..Len(Head(rules).target_files) :
                minimatch(name, Head(rules).target_files[i])
          THEN <<Head(rules)>> ELSE <<>>)
         \o getApplicableRules(Tail(rules), name)

\* the loop of evaluateConditions: the first condition that fails ends it
RECURSIVE AllPass(_, _)
AllPass(conditions, content) ==
    IF conditions = <<>> THEN TRUE
    ELSE IF ~evaluate(Head(conditions), content) THEN FALSE
    ELSE AllPass(Tail(conditions), content)

\* variant: one passing condition is enough (OR in place of AND)
evaluateConditionsAny(rule, content) ==
    \/ Len(rule.conditions) = 0
    \/ \E i \in 1..Len(rule.conditions) : evaluate(rule.conditions[i], content)

\* evaluateConditions (augmentation-engine.ts 267-286)
evaluateConditions(rule, content) ==
    IF Len(rule.conditions) = 0 THEN TRUE ELSE AllPass(rule.conditions, content)

\* variant: a rule whose conditions held counts as applied
appliedRuleAlways(ruleChanges) == TRUE

\* const appliedRule = ruleChanges.length > 0
appliedRule(ruleChanges) == Len(ruleChanges) > 0

\* variant: every rule starts from the content processFile was given
AdoptedNever(processedContent, newContent, applied) == processedContent

\* if (appliedRule) { processedContent = newContent }
Adopted(processedContent, newContent, applied) ==
    IF applied THEN newContent ELSE processedContent

\* the AugmentationResult processFile returns
Result ==
    [changed |-> eProcessed # eInput, originalContent |-> eInput,
     newContent |-> eProcessed, appliedRules |-> eApplied, changes |-> eChanges]

----------------------------------------------------------------------------
(* RuleLoader (rule-loader.ts)                                              *)
(* A rule source is [state, rules]: "absent" (no such file), "broken" (a    *)
(* file that loadConfig cannot read or parse) or "ok" with the rules of its *)
(* file_augmentation.rules. A loader rule is [name, description, enabled],  *)
(* enabled one of "true", "false", "undefined". The files of the sources    *)
(* stay as they are while the loader runs.                                  *)

\* the most loadRules() calls and reset() calls
MaxCalls == 2
MaxResets == 1

\* the sources in the order loadFromMultipleSources reads them
Sources == <<"global", "project", "main", "env">>

\* what a source may hold; a rule named "shared" is in every rule file
SourceContents(s) ==
    {[state |-> "absent", rules |-> <<>>],
     [state |-> "broken", rules |-> <<>>],
     [state |-> "ok",
      rules |-> <<[name |-> "shared", description |-> s, enabled |-> "undefined"]>>],
     [state |-> "ok",
      rules |-> <<[name |-> s, description |-> s, enabled |-> "false"],
                  [name |-> "shared", description |-> s, enabled |-> "true"]>>]}

\* variant: the error of loadConfig is not caught by the loader of the source
loadSourceUncaught(s, content) ==
    CASE content.state = "broken" -> [threw |-> TRUE, present |-> FALSE, rules |-> <<>>]
      [] content.state = "absent" -> [threw |-> FALSE, present |-> s = "main", rules |-> <<>>]
      [] OTHER -> [threw |-> FALSE, present |-> TRUE, rules |-> content.rules]

\* loadGlobalConfig, loadProjectConfig, loadMainConfig, loadFromEnvPath: null
\* when the file does not exist or loadConfig throws; loadMainConfig has no
\* existsSync and gets the defaults (no rules) when there is no main config
loadSource(s, content) ==
    CASE content.state = "broken" -> [threw |-> FALSE, present |-> FALSE, rules |-> <<>>]
      [] content.state = "absent" -> [threw |-> FALSE, present |-> s = "main", rules |-> <<>>]
      [] OTHER -> [threw |-> FALSE, present |-> TRUE, rules |-> content.rules]

\* configs.flatMap(config => config.file_augmentation?.rules || [])
RECURSIVE FlatMap(_)
FlatMap(configs) ==
    IF configs = <<>> THEN <<>> ELSE Head(configs) \o FlatMap(Tail(configs))

\* variant: only the rules that say enabled: true are kept
mergeRulesTruthy(configs) ==
    SelectSeq(FlatMap(configs), LAMBDA rule : rule.enabled = "true")

\* .flatMap(...).filter(rule => rule.enabled !== false)
mergeRules(configs) ==
    SelectSeq(FlatMap(configs), LAMBDA rule : rule.enabled # "false")

NoCall ==
    [pc |-> "idle", k |-> 0, configs |-> <<>>, reads |-> 0, result |-> <<>>,
     after |-> {}, resets |-> 0, doneAt |-> 0]

LIdle ==
    /\ lSrc = "idle" /\ lRules = <<>> /\ lLoaded = FALSE /\ lCalls = <<>>
    /\ lResets = 0

\* new RuleLoader(): rules = [], loaded = false
LInit ==
    /\ lSrc \in {f \in [{"global", "project", "main", "env"} ->
                          UNION {SourceContents(s) : s \in {"global", "project", "main", "env"}}] :
                    \A s \in DOMAIN f : f[s] \in SourceContents(s)}
    /\ lRules = <<>>
    /\ lLoaded = FALSE
    /\ lCalls = [c \in 1..MaxCalls |-> NoCall]
    /\ lResets = 0

Done == {c \in DOMAIN lCalls : lCalls[c].pc = "done"}

\* loadRules() is called: the cached rules when loaded, else the call goes to
\* its first await
LLoadRules ==
    \E c \in 1..MaxCalls :
        /\ lCalls[c].pc = "idle"
        /\ c > 1 => lCalls[c - 1].pc # "idle"
        /\ lCalls' = [lCalls EXCEPT ![c] =
              IF lLoaded
              THEN [NoCall EXCEPT !.pc = "done", !.result = lRules, !.after = Done,
                                  !.resets = lResets, !.doneAt = lResets]
              ELSE [NoCall EXCEPT !.pc = "load", !.k = 1, !.after = Done,
                                  !.resets = lResets]]
        /\ UNCHANGED <<lSrc, lRules, lLoaded, lResets>>
        /\ UNCHANGED <<uvars, avars, evars, dvars, rvars, gvars, svars>>

\* one await of loadFromMultipleSources returns; were a loader to throw, the
\* catch of loadRules would return [] and leave the cache as it is
LLoadSource ==
    \E c \in 1..MaxCalls :
        /\ lCalls[c].pc = "load"
        /\ LET config == loadSource(Sources[lCalls[c].k], lSrc[Sources[lCalls[c].k]])
           IN lCalls' = [lCalls EXCEPT ![c] =
                 IF config.threw
                 THEN [lCalls[c] EXCEPT !.pc = "done", !.result = <<>>,
                                        !.reads = lCalls[c].reads + 1, !.doneAt = lResets]
                 ELSE [lCalls[c] EXCEPT
                          !.configs = IF config.present
                                      THEN Append(lCalls[c].configs, config.rules)
                                      ELSE lCalls[c].configs,
                          !.reads = lCalls[c].reads + 1,
                          !.k = lCalls[c].k + 1,
                          !.pc = IF lCalls[c].k = Len(Sources) THEN "merge" ELSE "load"]]
        /\ UNCHANGED <<lSrc, lRules, lLoaded, lResets>>
        /\ UNCHANGED <<uvars, avars, evars, dvars, rvars, gvars, svars>>

\* this.rules = ...; this.loaded = true; return this.rules
LMerge ==
    \E c \in 1..MaxCalls :
        /\ lCalls[c].pc = "merge"
        /\ LET rules == mergeRules(lCalls[c].configs)
           IN /\ lRules' = rules
              /\ lCalls' = [lCalls EXCEPT ![c] =
                    [lCalls[c] EXCEPT !.pc = "done", !.result = rules, !.doneAt = lResets]]
        /\ lLoaded' = TRUE
        /\ UNCHANGED <<lSrc, lResets>>
        /\ UNCHANGED <<uvars, avars, evars, dvars, rvars, gvars, svars>>

\* reset(): rules = [], loaded = false
LReset ==
    /\ lResets < MaxResets
    /\ lRules' = <<>>
    /\ lLoaded' = FALSE
    /\ lResets' = lResets + 1
    /\ UNCHANGED <<lSrc, lCalls>>
    /\ UNCHANGED <<uvars, avars, evars, dvars, rvars, gvars, svars>>

LNext ==
    \/ LLoadRules
    \/ LLoadSource
    \/ LMerge
    \/ LReset


----------------------------------------------------------------------------
(* FileSyncService.syncDirectories (file-update.ts 866-1081)                *)

\* a relative path is the sequence of its segments, a segment the sequence
\* of its characters; a word stands for a run of letters that no pattern
\* of the model splits
Path ==
    [iac |-> <<<<"I">>>>,
     iacBackup |-> <<<<"I", ".", "nsync-backup">>>>,
     sub |-> <<<<"sub">>, <<"I">>>>,
     subBackup |-> <<<<"sub">>, <<"I", ".", "nsync-backup">>>>,
     app |-> <<<<"src">>, <<"app", ".", "ts">>>>,
     log |-> <<<<"test", ".", "log">>>>]

\* the paths in the order readdir lists them
PathOrder == <<Path.iac, Path.iacBackup, Path.app, Path.sub, Path.subBackup, Path.log>>
Paths == {PathOrder[i] : i \in 1..Len(PathOrder)}

DEFAULT_EXCLUDES ==
    <<<<".", "git">>, <<".", "github">>, <<"node_modules">>, <<".", "DS_Store">>,
      <<"Thumbs", ".", "db">>, <<"*", ".", "log">>, <<".", "env">>,
      <<".", "env", ".", "local">>>>

\* the preserveFiles a call may name
PreserveLists == {<<Path.iac>>, <<Path.iac, Path.sub>>}

existsSync(dir, path) == dir[path] # "none"

\* `${filePath}.nsync-backup`
BackupPath(path) ==
    [path EXCEPT ![Len(path)] = path[Len(path)] \o <<".", "nsync-backup">>]

\* the path as one text, its segments joined by "/"
RECURSIVE JoinPath(_)
JoinPath(path) ==
    IF Len(path) = 1 THEN path[1]
    ELSE path[1] \o <<"/">> \o JoinPath(Tail(path))

\* new RegExp(`^${regexPattern}$`).test(text): "." is itself, "*" any run of
\* characters, "?" one character
RECURSIVE RegexTest(_, _)
RegexTest(pattern, text) ==
    IF pattern = <<>> THEN text = <<>>
    ELSE IF Head(pattern) = "*"
    THEN \E i \in 0..Len(text) : RegexTest(Tail(pattern), SubSeq(text, i + 1, Len(text)))
    ELSE /\ text # <<>>
         /\ Head(pattern) = "?" \/ Head(pattern) = Head(text)
         /\ RegexTest(Tail(pattern), Tail(text))

\* matchesPattern(filePath, pattern) (1067-1081)
matchesPattern(filePath, pattern) ==
    \/ \E i \in 1..Len(filePath) : RegexTest(pattern, filePath[i])
    \/ RegexTest(pattern, JoinPath(filePath))

\* shouldExclude(relativePath, excludePatterns, preserveFiles) (1041-1056)
shouldExclude(relativePath, excludePatterns, preserveFiles) ==
    \/ /\ \E i \in 1..Len(preserveFiles) :
              preserveFiles[i] = <<relativePath[Len(relativePath)]>>
       /\ Len(relativePath) = 1
    \/ \E i \in 1..Len(excludePatterns) : matchesPattern(relativePath, excludePatterns[i])

\* backupPreservedFiles(targetDir, preserveFiles, dryRun) (948-965): the
\* directory after it and the names it returns
RECURSIVE backupPreservedFiles(_, _, _)
backupPreservedFiles(dir, preserveFiles, dryRun) ==
    IF preserveFiles = <<>> THEN [dir |-> dir, files |-> <<>>]
    ELSE LET name == Head(preserveFiles)
             found == existsSync(dir, name)
             copied == IF found /\ ~dryRun
                       THEN [dir EXCEPT ![BackupPath(name)] = dir[name]]
                       ELSE dir
             rest == backupPreservedFiles(copied, Tail(preserveFiles), dryRun)
         IN [dir |-> rest.dir,
             files |-> IF found THEN <<name>> \o rest.files ELSE rest.files]

\* restorePreservedFiles(targetDir, preservedFiles) (979-997)
RECURSIVE restorePreservedFiles(_, _)
restorePreservedFiles(dir, preservedFiles) ==
    IF preservedFiles = <<>> THEN dir
    ELSE LET name == Head(preservedFiles)
             backupPath == BackupPath(name)
         IN restorePreservedFiles(
                IF existsSync(dir, backupPath)
                THEN [dir EXCEPT ![name] = dir[backupPath], ![backupPath] = "none"]
                ELSE dir,
                Tail(preservedFiles))

\* getAllFiles(sourceDir) (1009-1027)
getAllFiles(dir) == SelectSeq(PathOrder, LAMBDA p : existsSync(dir, p))

DIdle ==
    /\ dSource = "idle" /\ dTarget = "idle" /\ dBefore = "idle" /\ dOptions = "idle"
    /\ dPc = "idle" /\ dTodo = <<>> /\ dPreserved = <<>> /\ dResult = "idle"

\* syncDirectories({sourceDir, targetDir, preserveFiles, dryRun}) is called:
\* the source holds any of the paths, the target its own files and no backup
DInit ==
    /\ dSource \in [Paths -> {"none", "source"}]
    /\ dTarget \in {t \in [Paths -> {"none", "target"}] :
                       \A p \in {Path.iacBackup, Path.subBackup, Path.log} : t[p] = "none"}
    /\ dBefore = dTarget
    /\ dOptions \in [preserveFiles : PreserveLists, dryRun : BOOLEAN]
    /\ dPc = "backup"
    /\ dTodo = <<>>
    /\ dPreserved = <<>>
    /\ dResult = [filesAdded |-> <<>>, filesModified |-> <<>>,
                  filesPreserved |-> <<>>, filesExcluded |-> <<>>]

\* backupPreservedFiles, then getAllFiles(sourceDir)
DBackupWith(backup) ==
    /\ dPc = "backup"
    /\ dTarget' = backup.dir
    /\ dPreserved' = backup.files
    /\ dResult' = [dResult EXCEPT !.filesPreserved = backup.files]
    /\ dTodo' = getAllFiles(dSource)
    /\ dPc' = "copy"
    /\ UNCHANGED <<dSource, dBefore, dOptions>>
    /\ UNCHANGED <<uvars, avars, evars, lvars, rvars, gvars, svars>>

DBackup ==
    DBackupWith(backupPreservedFiles(dTarget, dOptions.preserveFiles, dOptions.dryRun))

\* one turn of `for (const sourceFile of sourceFiles)` on an excluded file
DExclude ==
    /\ dPc = "copy"
    /\ dTodo # <<>>
    /\ shouldExclude(Head(dTodo), DEFAULT_EXCLUDES, dOptions.preserveFiles)
    /\ dResult' = [dResult EXCEPT !.filesExcluded = Append(@, Head(dTodo))]
    /\ dTodo' = Tail(dTodo)
    /\ UNCHANGED <<dSource, dTarget, dBefore, dOptions, dPc, dPreserved>>
    /\ UNCHANGED <<uvars, avars, evars, lvars, rvars, gvars, svars>>

\* one turn on a file that is not excluded: cp unless dryRun, then the file
\* is counted as modified if the target holds it now, as added otherwise
DCopyTo(file, copied) ==
    /\ dTarget' = copied
    /\ dResult' = IF existsSync(copied, file)
                  THEN [dResult EXCEPT !.filesModified = Append(@, file)]
                  ELSE [dResult EXCEPT !.filesAdded = Append(@, file)]
    /\ dTodo' = Tail(dTodo)
    /\ UNCHANGED <<dSource, dBefore, dOptions, dPc, dPreserved>>
    /\ UNCHANGED <<uvars, avars, evars, lvars, rvars, gvars, svars>>

DCopy ==
    /\ dPc = "copy"
    /\ dTodo # <<>>
    /\ ~shouldExclude(Head(dTodo), DEFAULT_EXCLUDES, dOptions.preserveFiles)
    /\ DCopyTo(Head(dTodo),
               IF dOptions.dryRun THEN dTarget
               ELSE [dTarget EXCEPT ![Head(dTodo)] = dSource[Head(dTodo)]])

\* if (!dryRun) await this.restorePreservedFiles(targetDir, preservedFiles)
DRestore ==
    /\ dPc = "copy"
    /\ dTodo = <<>>
    /\ ~dOptions.dryRun
    /\ dTarget' = restorePreservedFiles(dTarget, dPreserved)
    /\ dPc' = "restored"
    /\ UNCHANGED <<dSource, dBefore, dOptions, dTodo, dPreserved, dResult>>
    /\ UNCHANGED <<uvars, avars, evars, lvars, rvars, gvars, svars>>

\* return result
DReturn ==
    /\ \/ dPc = "restored"
       \/ dPc = "copy" /\ dTodo = <<>> /\ dOptions.dryRun
    /\ dPc' = "done"
    /\ UNCHANGED <<dSource, dTarget, dBefore, dOptions, dTodo, dPreserved, dResult>>
    /\ UNCHANGED <<uvars, avars, evars, lvars, rvars, gvars, svars>>

DNext ==
    \/ DBackup
    \/ DExclude
    \/ DCopy
    \/ DRestore
    \/ DReturn

----------------------------------------------------------------------------
(* rateLimitedFetch and processQueue (rate-limit.ts 66-141)                 *)

\* the calls of the returned function, and the last instant of the clock
MaxFetches == 4
MaxTime == 4

\* windowMs, in ticks of the clock
WindowTicks == 2

\* hostnames of the URLs handed to the returned function
Domains == {"api.github.com", "github.company.com"}

NoLimiter == [set |-> FALSE, requests |-> 0, resetTime |-> 0, queue |-> <<>>]

RIdle ==
    /\ rConfig = "idle" /\ rNow = 0 /\ rLimiters = "idle" /\ rTimers = <<>>
    /\ rLog = <<>> /\ rCalls = 0

\* rateLimitedFetch(fetchFn, {maxRequests, windowMs}) has returned; the map
\* rateLimiters is empty
RInit ==
    /\ rConfig \in [maxRequests : {1, 2}, windowMs : {WindowTicks}]
    /\ rNow = 0
    /\ rLimiters = [d \in Domains |-> NoLimiter]
    /\ rTimers = <<>>
    /\ rLog = <<>>
    /\ rCalls = 0

Fetched(domain) == [kind |-> "fetch", domain |-> domain, at |-> rNow]
Opened(domain) == [kind |-> "window", domain |-> domain, at |-> rNow]

\* the limiter of the domain when the call reaches line 103: created if
\* missing (86-92), its window reset if the time has passed (98-101); opened
\* tells whether a window starts with this call
LimiterAtCall(domain) ==
    LET had == rLimiters[domain]
        limiter == IF had.set THEN had
                   ELSE [set |-> TRUE, requests |-> 0,
                         resetTime |-> rNow + rConfig.windowMs, queue |-> <<>>]
    IN IF rNow >= limiter.resetTime
       THEN [limiter |-> [limiter EXCEPT !.requests = 0,
                                         !.resetTime = rNow + rConfig.windowMs],
             opened |-> TRUE]
       ELSE [limiter |-> limiter, opened |-> ~had.set]

\* the returned function (81-119) called with a URL of the domain: the
\* request goes to fetchFn at once, or is queued with a timer for the reset
RCallWith(domain, at) ==
    /\ rCalls < MaxFetches
    /\ rCalls' = rCalls + 1
    /\ IF at.limiter.requests < rConfig.maxRequests
       THEN /\ rLimiters' = [rLimiters EXCEPT
                                ![domain] = [at.limiter EXCEPT !.requests = @ + 1]]
            /\ rLog' = rLog \o (IF at.opened THEN <<Opened(domain)>> ELSE <<>>)
                            \o <<Fetched(domain)>>
            /\ UNCHANGED rTimers
       ELSE /\ rLimiters' = [rLimiters EXCEPT
                                ![domain] = [at.limiter EXCEPT
                                                !.queue = Append(@, rCalls + 1)]]
            /\ rTimers' = Append(rTimers, [domain |-> domain, at |-> at.limiter.resetTime])
            /\ rLog' = rLog \o (IF at.opened THEN <<Opened(domain)>> ELSE <<>>)
    /\ UNCHANGED <<rConfig, rNow>>
    /\ UNCHANGED <<uvars, avars, evars, lvars, dvars, gvars, svars>>

RCall == \E domain \in Domains : RCallWith(domain, LimiterAtCall(domain))

\* toProcess = limiter.queue.splice(0, maxRequests)
Spliced(queue, maxRequests) ==
    SubSeq(queue, 1, IF Len(queue) < maxRequests THEN Len(queue) ELSE maxRequests)

\* a setTimeout callback runs, not before its time: processQueue (122-141)
\* returns when the queue is empty, else opens a window and hands the head of
\* the queue to fetchFn
RTimerWith(i, limiter, toProcess) ==
    /\ rTimers[i].at <= rNow
    /\ rTimers' = SubSeq(rTimers, 1, i - 1) \o SubSeq(rTimers, i + 1, Len(rTimers))
    /\ IF ~limiter.set \/ limiter.queue = <<>>
       THEN UNCHANGED <<rLimiters, rLog>>
       ELSE /\ rLimiters' = [rLimiters EXCEPT ![rTimers[i].domain] =
                                [limiter EXCEPT
                                    !.requests = Len(toProcess),
                                    !.resetTime = rNow + rConfig.windowMs,
                                    !.queue = SubSeq(@, Len(toProcess) + 1, Len(@))]]
            /\ rLog' = rLog \o <<Opened(rTimers[i].domain)>>
                            \o [k \in 1..Len(toProcess) |-> Fetched(rTimers[i].domain)]
    /\ UNCHANGED <<rConfig, rNow, rCalls>>
    /\ UNCHANGED <<uvars, avars, evars, lvars, dvars, gvars, svars>>

RTimer ==
    \E i \in 1..Len(rTimers) :
        RTimerWith(i, rLimiters[rTimers[i].domain],
                   Spliced(rLimiters[rTimers[i].domain].queue, rConfig.maxRequests))

\* the clock advances
RTick ==
    /\ rNow < MaxTime
    /\ rNow' = rNow + 1
    /\ UNCHANGED <<rConfig, rLimiters, rTimers, rLog, rCalls>>
    /\ UNCHANGED <<uvars, avars, evars, lvars, dvars, gvars, svars>>

RNext ==
    \/ RCall
    \/ RTimer
    \/ RTick

----------------------------------------------------------------------------
(* createRateLimitedGitHubClient (rate-limit.ts 15-55)                      *)

\* the calls made to the client
MaxClientCalls == 3

Endpoints == {"endpoint1", "endpoint2"}

\* an entry of pendingCalls: promise tells whether pending.promise is set,
\* phase where the debounced function is: "none", "waiting" for the delay,
\* "fetching", "settled"
NoPending == [promise |-> FALSE, calls |-> <<>>, phase |-> "none"]

GIdle == gPending = "idle" /\ gCalls = <<>> /\ gFetches = "idle"

\* createRateLimitedGitHubClient(fetchFn, {delay}) has returned the client
GInit ==
    /\ gPending = [e \in Endpoints |-> NoPending]
    /\ gCalls = <<>>
    /\ gFetches = [e \in Endpoints |-> 0]

\* client(endpoint) (22-54): the resolvers are pushed; a call that finds
\* pending.promise set returns there (32-34), the first call of the endpoint
\* creates the debounced function and calls it
GCall ==
    \E endpoint \in Endpoints :
        /\ Len(gCalls) < MaxClientCalls
        /\ gCalls' = Append(gCalls, [endpoint |-> endpoint, state |-> "pending"])
        /\ gPending' = [gPending EXCEPT ![endpoint] =
                           IF @.promise
                           THEN [@ EXCEPT !.calls = Append(@, Len(gCalls) + 1)]
                           ELSE [promise |-> TRUE,
                                 calls |-> Append(@.calls, Len(gCalls) + 1),
                                 phase |-> "waiting"]]
        /\ UNCHANGED gFetches
        /\ UNCHANGED <<uvars, avars, evars, lvars, dvars, rvars, svars>>

\* the delay of the debounced function has passed: fetchFn(endpoint) is called
GDelayElapsed ==
    \E endpoint \in Endpoints :
        /\ gPending[endpoint].phase = "waiting"
        /\ gPending' = [gPending EXCEPT ![endpoint].phase = "fetching"]
        /\ gFetches' = [gFetches EXCEPT ![endpoint] = @ + 1]
        /\ UNCHANGED gCalls
        /\ UNCHANGED <<uvars, avars, evars, lvars, dvars, rvars, svars>>

\* the promise of fetchFn settles: every call in pending.calls is resolved,
\* or rejected, and pending.calls is emptied (38-48)
GSettle(endpoint, outcome) ==
    /\ gPending[endpoint].phase = "fetching"
    /\ gCalls' = [i \in 1..Len(gCalls) |->
                     IF \E k \in 1..Len(gPending[endpoint].calls) :
                            gPending[endpoint].calls[k] = i
                     THEN [gCalls[i] EXCEPT !.state = outcome]
                     ELSE gCalls[i]]
    /\ gPending' = [gPending EXCEPT ![endpoint].calls = <<>>,
                                    ![endpoint].phase = "settled"]
    /\ UNCHANGED gFetches
    /\ UNCHANGED <<uvars, avars, evars, lvars, dvars, rvars, svars>>

GFetchResolves == \E endpoint \in Endpoints : GSettle(endpoint, "resolved")

GFetchRejects == \E endpoint \in Endpoints : GSettle(endpoint, "rejected")

GNext ==
    \/ GCall
    \/ GDelayElapsed
    \/ GFetchResolves
    \/ GFetchRejects

----------------------------------------------------------------------------
(* SyncService.execute and processTargetRepository (sync.ts 152-192,        *)
(* 351-366, 384-540): the steps made outside the process                    *)

\* the most target repositories of a configuration
MaxTargets == 2

\* the temporary directories: that of the source clone, those of the targets
SourceDir == [prefix |-> "nsync-source-", n |-> 0]
TargetDir(i) == [prefix |-> "nsync-target-", n |-> i]
NoDir == [prefix |-> "null", n |-> 0]

SIdle ==
    /\ sOptions = "idle" /\ sPc = "idle" /\ sTarget = 0 /\ sSourceDir = NoDir
    /\ sDirs = {} /\ sLog = <<>> /\ sResults = <<>>

\* execute(options) is at its try block (153): the tag is selected, no
\* temporary directory exists
SInit ==
    /\ sOptions \in [dryRun : BOOLEAN, targets : 1..MaxTargets]
    /\ sPc = "source"
    /\ sTarget = 0
    /\ sSourceDir = NoDir
    /\ sDirs = {}
    /\ sLog = <<>>
    /\ sResults = <<>>

Step(step, outcome) == [target |-> sTarget, step |-> step, outcome |-> outcome]

\* a step of the inner try block of processTargetRepository throws: the
\* finally block is next, and the catch (530-539) returns a failure
SFails(step) ==
    /\ sLog' = Append(sLog, Step(step, "failed"))
    /\ sResults' = Append(sResults, [success |-> FALSE, pr |-> FALSE])
    /\ sPc' = "cleanup"

\* the step succeeds and the next one follows
SGoes(step, next) ==
    /\ sLog' = Append(sLog, Step(step, "ok"))
    /\ sPc' = next
    /\ UNCHANGED sResults

\* a return of the inner try block: the finally block is next
SReturns(step, outcome, result) ==
    /\ sLog' = Append(sLog, Step(step, outcome))
    /\ sResults' = Append(sResults, result)
    /\ sPc' = "cleanup"

\* cloneSourceRepository (351-366): createTempDirectory, then cloneRepository
\* into it; the path is returned, and assigned to sourceDir, only if both
\* succeed
SCloneSource ==
    /\ sPc = "source"
    /\ \E outcome \in {"ok", "clone failed", "no directory"} :
          /\ sDirs' = IF outcome = "no directory" THEN sDirs ELSE sDirs \cup {SourceDir}
          /\ sSourceDir' = IF outcome = "ok" THEN SourceDir ELSE NoDir
          /\ sPc' = IF outcome = "ok" THEN "target" ELSE "failed"
          /\ sTarget' = IF outcome = "ok" THEN 1 ELSE sTarget
    /\ UNCHANGED <<sOptions, sLog, sResults>>
    /\ UNCHANGED <<uvars, avars, evars, lvars, dvars, rvars, gvars>>

\* createTempDirectory('nsync-target-') (403): outside the inner try, so a
\* failure goes to the catch with no directory made
STargetDir ==
    /\ sPc = "target"
    /\ sTarget <= sOptions.targets
    /\ \E ok \in BOOLEAN :
          IF ok
          THEN /\ sDirs' = sDirs \cup {TargetDir(sTarget)}
               /\ sPc' = "clone"
               /\ UNCHANGED <<sTarget, sResults>>
          ELSE /\ sResults' = Append(sResults, [success |-> FALSE, pr |-> FALSE])
               /\ sTarget' = sTarget + 1
               /\ UNCHANGED <<sDirs, sPc>>
    /\ UNCHANGED <<sOptions, sSourceDir, sLog>>
    /\ UNCHANGED <<uvars, avars, evars, lvars, dvars, rvars, gvars>>

\* cloneRepository({url: target.url, targetDir}) (406-409)
SCloneTarget ==
    /\ sPc = "clone"
    /\ SGoes("clone", "branch") \/ SFails("clone")
    /\ UNCHANGED <<sOptions, sTarget, sSourceDir, sDirs>>
    /\ UNCHANGED <<uvars, avars, evars, lvars, dvars, rvars, gvars>>

\* createBranch(targetTempDir, branchName) (412)
SCreateBranch ==
    /\ sPc = "branch"
    /\ SGoes("branch", "sync") \/ SFails("branch")
    /\ UNCHANGED <<sOptions, sTarget, sSourceDir, sDirs>>
    /\ UNCHANGED <<uvars, avars, evars, lvars, dvars, rvars, gvars>>

\* variant: the preview return is never taken
previewsNever(dryRun) == FALSE

\* if (dryRun) { return {... 'Would create draft pull request'} } (458-474)
previews(dryRun) == dryRun

\* syncDirectories, updatePreservedFiles and augmentFiles (415-446), then the
\* return of a dry run
SSyncFiles ==
    /\ sPc = "sync"
    /\ \/ previews(sOptions.dryRun)
          /\ SReturns("sync", "ok", [success |-> TRUE, pr |-> FALSE])
       \/ ~previews(sOptions.dryRun) /\ SGoes("sync", "commit")
       \/ SFails("sync")
    /\ UNCHANGED <<sOptions, sTarget, sSourceDir, sDirs>>
    /\ UNCHANGED <<uvars, avars, evars, lvars, dvars, rvars, gvars>>

\* commitChanges (477-490): a hash, 'No changes' (the function returns), or
\* an error
SCommit ==
    /\ sPc = "commit"
    /\ \/ SGoes("commit", "push")
       \/ SReturns("commit", "No changes", [success |-> TRUE, pr |-> FALSE])
       \/ SFails("commit")
    /\ UNCHANGED <<sOptions, sTarget, sSourceDir, sDirs>>
    /\ UNCHANGED <<uvars, avars, evars, lvars, dvars, rvars, gvars>>

\* pushBranch(targetTempDir, branchName) (493)
SPush ==
    /\ sPc = "push"
    /\ SGoes("push", "pr") \/ SFails("push")
    /\ UNCHANGED <<sOptions, sTarget, sSourceDir, sDirs>>
    /\ UNCHANGED <<uvars, avars, evars, lvars, dvars, rvars, gvars>>

\* createPullRequest (496-523)
SCreatePullRequest ==
    /\ sPc = "pr"
    /\ SReturns("pr", "ok", [success |-> TRUE, pr |-> TRUE]) \/ SFails("pr")
    /\ UNCHANGED <<sOptions, sTarget, sSourceDir, sDirs>>
    /\ UNCHANGED <<uvars, avars, evars, lvars, dvars, rvars, gvars>>

\* finally { cleanupDirectory(targetTempDir) } (525-528), then the next turn
\* of the loop of execute
SCleanupTarget ==
    /\ sPc = "cleanup"
    /\ sDirs' = sDirs \ {TargetDir(sTarget)}
    /\ sTarget' = sTarget + 1
    /\ sPc' = "target"
    /\ UNCHANGED <<sOptions, sSourceDir, sLog, sResults>>
    /\ UNCHANGED <<uvars, avars, evars, lvars, dvars, rvars, gvars>>

\* finally { if (sourceDir) cleanupDirectory(sourceDir) } (186-191): after the
\* loop, or with the error of cloneSourceRepository on its way out
SCleanupSource ==
    /\ \/ sPc = "target" /\ sTarget > sOptions.targets
       \/ sPc = "failed"
    /\ sDirs' = IF sSourceDir = NoDir THEN sDirs ELSE sDirs \ {sSourceDir}
    /\ sPc' = IF sPc = "failed" THEN "threw" ELSE "returned"
    /\ UNCHANGED <<sOptions, sTarget, sSourceDir, sLog, sResults>>
    /\ UNCHANGED <<uvars, avars, evars, lvars, dvars, rvars, gvars>>

SNext ==
    \/ SCloneSource
    \/ STargetDir
    \/ SCloneTarget
    \/ SCreateBranch
    \/ SSyncFiles
    \/ SCommit
    \/ SPush
    \/ SCreatePullRequest
    \/ SCleanupTarget
    \/ SCleanupSource
\* the most rules a loaded rule set holds
MaxRules == 2

Glob == [yaml |-> <<"*", ".", "yaml">>, json |-> <<"*", ".", "json">>]

Files == {<<"charts", "/", "values", ".", "yaml">>,
          <<"package", ".", "json">>,
          <<"README", ".", "md">>}

EContents ==
    {[kind |-> "yaml", canon |-> TRUE, data |-> D_artifact(Text.art100)],
     [kind |-> "yaml", canon |-> FALSE, data |-> D_artifact(Text.art200)],
     [kind |-> "json", canon |-> TRUE, data |-> D_package(Text.v100)],
     [kind |-> "json", canon |-> FALSE, data |-> D_package(Text.v200)],
     [kind |-> "scalar", canon |-> TRUE, data |-> Str(<<"x">>)],
     [kind |-> "opaque", canon |-> FALSE, data |-> Undef]}

EContexts == {[gitTag |-> g, sourceVersion |-> <<>>] : g \in {<<"v">> \o Text.v200, <<"v">> \o Text.v100}}

BlankCondition == [type |-> "undefined", key |-> <<>>, pattern |-> "undefined"]

\* the rule files of the model; a rule set holds rules of different names
RuleCatalogue ==
    {[name |-> "bump_artifact", target_files |-> <<Glob.yaml>>,
      conditions |-> <<[BlankCondition EXCEPT !.type = "yaml_has_key", !.key = Key.artifact],
                       [BlankCondition EXCEPT !.type = "value_matches", !.key = Key.artifact,
                                              !.pattern = p]>>,
      actions |-> <<[BlankAction EXCEPT !.type = "update_version_in_value",
                                        !.key = Key.artifact, !.version_pattern = Regex.artifact,
                                        !.version_source = "git_tag",
                                        !.comparison = "greater_than"]>>]
        : p \in {Regex.artifact, Regex.invalid}}
    \cup {[name |-> "set_version", target_files |-> <<Glob.json>>,
           conditions |-> <<[BlankCondition EXCEPT !.type = "json_has_key", !.key = Key.version]>>,
           actions |-> <<[BlankAction EXCEPT !.type = "replace_value", !.key = Key.version,
                                             !.value = Str(Text.v200)]>>],
          [name |-> "add_tag", target_files |-> <<Glob.json>>,
           conditions |-> <<>>,
           actions |-> <<[BlankAction EXCEPT !.type = "append_to_array", !.key = Key.tags,
                                             !.value = Str(<<"x">>)]>>],
          [name |-> "defaults", target_files |-> <<Glob.json, Glob.yaml>>,
           conditions |-> <<[BlankCondition EXCEPT !.type = "file_exists"]>>,
           actions |-> <<[BlankAction EXCEPT !.type = "delete_key", !.key = Key.version],
                         [BlankAction EXCEPT !.type = "set_value", !.key = Key.env,
                                             !.value = Str(<<"p">>)]>>],
          [name |-> "noop", target_files |-> <<Glob.yaml>>,
           conditions |-> <<>>,
           actions |-> <<[BlankAction EXCEPT !.type = "custom"],
                         [BlankAction EXCEPT !.type = "set_value", !.key = Key.artifact,
                                             !.value = Str(<<"x">>)]>>],
          [name |-> "retag", target_files |-> <<Glob.yaml>>,
           conditions |-> <<>>,
           actions |-> <<[BlankAction EXCEPT !.type = "update_version_in_value",
                                             !.key = Key.artifact, !.version_pattern = Regex.artifact,
                                             !.version_source = "git_tag"]>>],
          [name |-> "pin", target_files |-> <<Glob.json, Glob.yaml>>,
           conditions |-> <<>>,
           actions |-> <<[BlankAction EXCEPT !.type = "replace_value", !.key = Key.version,
                                             !.value = Str(Text.v10)]>>]}
    \cup {[name |-> "guarded", target_files |-> <<Glob.json>>,
           conditions |-> <<[BlankCondition EXCEPT !.type = "json_has_key", !.key = Key.version],
                            [BlankCondition EXCEPT !.type = t]>>,
           actions |-> <<[BlankAction EXCEPT !.type = "replace_value", !.key = Key.version,
                                             !.value = Str(Text.v1)]>>]
        : t \in {"custom", "regex_matches"}}

RuleLists ==
    {<<>>}
    \cup {<<r>> : r \in RuleCatalogue}
    \cup {s \in UNION {[1..n -> RuleCatalogue] : n \in 2..MaxRules} :
            \A i, j \in 1..Len(s) : i # j => s[i].name # s[j].name}

EIdle ==
    /\ eRules = <<>> /\ eFile = <<>> /\ eCtx = "idle" /\ eInput = "idle" /\ eRun = 0
    /\ ePc = "idle" /\ eApplicable = <<>> /\ eRule = 0 /\ eAct = 0
    /\ eProcessed = "idle" /\ eContent = "idle" /\ eRuleChanges = <<>>
    /\ eApplied = <<>> /\ eChanges = <<>> /\ eLog = <<>>

\* initialize() loaded the rules; processFile is entered
EInit ==
    /\ eRules \in RuleLists
    /\ eFile \in Files
    /\ eCtx \in EContexts
    /\ eInput \in EContents
    /\ eRun = 1
    /\ ePc = "rule"
    /\ eApplicable = getApplicableRules(eRules, fileName(eFile))
    /\ eRule = 1
    /\ eAct = 0
    /\ eProcessed = eInput
    /\ eContent = eInput
    /\ eRuleChanges = <<>>
    /\ eApplied = <<>>
    /\ eChanges = <<>>
    /\ eLog = <<>>

\* if (applicableRules.length === 0) return { changed: false, ... }
ENoRules ==
    /\ ePc = "rule"
    /\ Len(eApplicable) = 0
    /\ ePc' = "done"
    /\ UNCHANGED <<eRules, eFile, eCtx, eInput, eRun, eApplicable, eRule, eAct,
                   eProcessed, eContent, eRuleChanges, eApplied, eChanges, eLog>>
    /\ UNCHANGED <<uvars, avars, lvars, dvars, rvars, gvars, svars>>

\* processRule up to its action loop: the conditions are evaluated on the
\* content processFile holds; when they fail the rule returns appliedRule false
EConditionsWith(rule, conditionsPass) ==
    /\ eLog' = Append(eLog, [kind |-> "conditions", rule |-> rule.name,
                             content |-> eProcessed, pass |-> conditionsPass])
    /\ ePc' = IF conditionsPass THEN "action" ELSE "rule"
    /\ eRule' = IF conditionsPass THEN eRule ELSE eRule + 1
    /\ eAct' = 1
    /\ eContent' = eProcessed
    /\ eRuleChanges' = <<>>
    /\ UNCHANGED <<eRules, eFile, eCtx, eInput, eRun, eApplicable, eProcessed,
                   eApplied, eChanges>>
    /\ UNCHANGED <<uvars, avars, lvars, dvars, rvars, gvars, svars>>

EConditions ==
    /\ ePc = "rule"
    /\ eRule <= Len(eApplicable)
    /\ EConditionsWith(eApplicable[eRule], evaluateConditions(eApplicable[eRule], eProcessed))

\* one turn of `for (const action of rule.actions)`; were apply to throw,
\* processRule would throw and the catch of processFile drop the rule
EActionWith(rule, action, result) ==
    /\ eLog' = Append(eLog, [kind |-> "action", rule |-> rule.name, index |-> eAct,
                             action |-> action, content |-> eContent,
                             result |-> result])
    /\ ePc' = IF result.threw THEN "rule" ELSE "action"
    /\ eRule' = IF result.threw THEN eRule + 1 ELSE eRule
    /\ eAct' = eAct + 1
    /\ eContent' = result.content
    /\ eRuleChanges' = IF result.change # <<>>
                       THEN Append(eRuleChanges, [result.change[1] EXCEPT !.rule = rule.name])
                       ELSE eRuleChanges
    /\ UNCHANGED <<eRules, eFile, eCtx, eInput, eRun, eApplicable, eProcessed,
                   eApplied, eChanges>>
    /\ UNCHANGED <<uvars, avars, lvars, dvars, rvars, gvars, svars>>

EAction ==
    /\ ePc = "action"
    /\ eAct <= Len(eApplicable[eRule].actions)
    /\ EActionWith(eApplicable[eRule], eApplicable[eRule].actions[eAct],
                   apply(eApplicable[eRule].actions[eAct], eContent, eCtx))

\* processRule returns and processFile takes the result in
EFinishRuleWith(rule, applied) ==
    /\ eLog' = Append(eLog, [kind |-> "end", rule |-> rule.name,
                             content |-> eContent, applied |-> applied])
    /\ eProcessed' = Adopted(eProcessed, eContent, applied)
    /\ eApplied' = IF applied THEN Append(eApplied, rule.name) ELSE eApplied
    /\ eChanges' = IF applied THEN eChanges \o eRuleChanges ELSE eChanges
    /\ eRule' = eRule + 1
    /\ ePc' = "rule"
    /\ UNCHANGED <<eRules, eFile, eCtx, eInput, eRun, eApplicable, eAct,
                   eContent, eRuleChanges>>
    /\ UNCHANGED <<uvars, avars, lvars, dvars, rvars, gvars, svars>>

EFinishRule ==
    /\ ePc = "action"
    /\ eAct > Len(eApplicable[eRule].actions)
    /\ EFinishRuleWith(eApplicable[eRule], appliedRule(eRuleChanges))

\* the loop over the applicable rules ends and processFile returns
EReturn ==
    /\ ePc = "rule"
    /\ Len(eApplicable) > 0
    /\ eRule > Len(eApplicable)
    /\ ePc' = "done"
    /\ UNCHANGED <<eRules, eFile, eCtx, eInput, eRun, eApplicable, eRule, eAct,
                   eProcessed, eContent, eRuleChanges, eApplied, eChanges, eLog>>
    /\ UNCHANGED <<uvars, avars, lvars, dvars, rvars, gvars, svars>>

\* processFile(filePath, r1.newContent, context): the same engine, path and
\* context, the content the first call returned
EAgain ==
    /\ ePc = "done"
    /\ eRun = 1
    /\ eRun' = 2
    /\ eInput' = eProcessed
    /\ ePc' = "rule"
    /\ eRule' = 1
    /\ eAct' = 0
    /\ eContent' = eProcessed
    /\ eRuleChanges' = <<>>
    /\ eApplied' = <<>>
    /\ eChanges' = <<>>
    /\ eLog' = <<>>
    /\ UNCHANGED <<eRules, eFile, eCtx, eApplicable, eProcessed>>
    /\ UNCHANGED <<uvars, avars, lvars, dvars, rvars, gvars, svars>>

ENext ==
    \/ ENoRules
    \/ EConditions
    \/ EAction
    \/ EFinishRule
    \/ EReturn
    \/ EAgain

----------------------------------------------------------------------------
(* Specifications *)

\* each specification runs one component; the others stay idle
InitUpdate == UInit /\ AIdle /\ EIdle /\ LIdle /\ DIdle /\ RIdle /\ GIdle /\ SIdle
SpecUpdate == InitUpdate /\ [][UNext]_vars

InitAction == AInit /\ UIdle /\ EIdle /\ LIdle /\ DIdle /\ RIdle /\ GIdle /\ SIdle
SpecAction == InitAction /\ [][ANext]_vars

InitEngine == EInit /\ UIdle /\ AIdle /\ LIdle /\ DIdle /\ RIdle /\ GIdle /\ SIdle
SpecEngine == InitEngine /\ [][ENext]_vars

InitLoader == LInit /\ UIdle /\ AIdle /\ EIdle /\ DIdle /\ RIdle /\ GIdle /\ SIdle
SpecLoader == InitLoader /\ [][LNext]_vars

InitSync == DInit /\ UIdle /\ AIdle /\ EIdle /\ LIdle /\ RIdle /\ GIdle /\ SIdle
SpecSync == InitSync /\ [][DNext]_vars

InitRate == RInit /\ UIdle /\ AIdle /\ EIdle /\ LIdle /\ DIdle /\ GIdle /\ SIdle
SpecRate == InitRate /\ [][RNext]_vars

InitClient == GInit /\ UIdle /\ AIdle /\ EIdle /\ LIdle /\ DIdle /\ RIdle /\ SIdle
SpecClient == InitClient /\ [][GNext]_vars

\* the delay of a debounced function passes, and the promise of fetchFn
\* settles
SpecClientFair ==
    /\ SpecClient
    /\ WF_vars(GDelayElapsed)
    /\ WF_vars(GFetchResolves \/ GFetchRejects)

InitService == SInit /\ UIdle /\ AIdle /\ EIdle /\ LIdle /\ DIdle /\ RIdle /\ GIdle
SpecService == InitService /\ [][SNext]_vars

----------------------------------------------------------------------------
(* Properties of the version-gated updates (FileUpdateService)              *)

\* numeric major[.minor[.patch]], an optional leading v
ComparableParts(parts) ==
    Len(parts) \in 1..3 /\ \A i \in 1..Len(parts) : AllDigits(parts[i])
Comparable(v) == ComparableParts(Split(StripV(v), "."))

\* (major, minor, patch) as integers, a missing component read as 0
TripleOf(parts) ==
    [i \in 1..3 |-> IF i <= Len(parts) THEN DigitsToNat(parts[i], 0) ELSE 0]
Triple(v) == TripleOf(Split(StripV(v), "."))
Newer(a, b) ==
    LET x == Triple(a)
        y == Triple(b)
    IN \/ x[1] > y[1]
       \/ x[1] = y[1] /\ x[2] > y[2]
       \/ x[1] = y[1] /\ x[2] = y[2] /\ x[3] > y[3]

\* the version text an update rule reads in a file, <<>> when the rule does
\* not reach a value in it
VersionSeen(rule, doc) ==
    CASE RuleType(rule) = "pattern" /\ doc.fmt = "yaml" ->
            createRegexFromPattern(MemberText(doc.lines, "remote_artifact")).version
      [] RuleType(rule) = "json_field" /\ doc.fmt = "json"
            /\ MemberIndex(doc.lines, rule.path) # 0 -> MemberText(doc.lines, rule.path)
      [] RuleType(rule) = "yaml_field" /\ doc.fmt = "yaml"
            /\ MemberIndex(doc.lines, rule.path) # 0 -> MemberText(doc.lines, rule.path)
      [] OTHER -> <<>>

\* the strategy in force: pattern rules default to replace_if_newer, field
\* rules to always_replace
StrategyOf(rule) ==
    IF rule.version_strategy # "undefined" THEN rule.version_strategy
    ELSE IF RuleType(rule) = "pattern" THEN "replace_if_newer" ELSE "always_replace"

LastUntouched ==
    /\ ~uLast.result.modified
    /\ uLast.result.changes = <<>>
    /\ uLast.result.content = uLast.before

\* C3: a version-gated update rule (replace_if_newer, replace_if_newer_or_equal)
\* whose current version is not numeric major[.minor[.patch]] leaves the content
\* unchanged, records no Change and raises no error.
C3_NotComparableIsLeftAlone ==
    (/\ uStep > 0
     /\ StrategyOf(uLast.rule) \in {"replace_if_newer", "replace_if_newer_or_equal"}
     /\ VersionSeen(uLast.rule, uLast.before) # <<>>
     /\ ~Comparable(VersionSeen(uLast.rule, uLast.before)))
    => (LastUntouched /\ uPc # "threw")

\* C4: under replace_if_newer a version-bearing value is updated if and only if
\* the new version is strictly greater than the current one, (major, minor,
\* patch) compared as integers, a leading v stripped, missing components 0.
C4_UpdatedIffStrictlyNewer ==
    (/\ uStep > 0
     /\ StrategyOf(uLast.rule) = "replace_if_newer"
     /\ VersionSeen(uLast.rule, uLast.before) # <<>>
     /\ Comparable(VersionSeen(uLast.rule, uLast.before))
     /\ Comparable(uSync))
    => /\ uLast.result.modified <=> Newer(uSync, VersionSeen(uLast.rule, uLast.before))
       /\ ~uLast.result.modified => LastUntouched

\* C5: for every update rule type the decision to overwrite follows
\* version_strategy: never_replace never modifies or records a Change,
\* always_replace overwrites however the versions compare, and
\* replace_if_newer_or_equal overwrites iff new >= current.
C5_DecisionFollowsStrategy ==
    /\ (uStep > 0 /\ uLast.rule.version_strategy = "never_replace") => LastUntouched
    /\ (/\ uStep > 0
        /\ StrategyOf(uLast.rule) = "always_replace"
        /\ VersionSeen(uLast.rule, uLast.before) # <<>>)
       => VersionSeen(uLast.rule, uLast.result.content) = uSync
    /\ (/\ uStep > 0
        /\ StrategyOf(uLast.rule) = "replace_if_newer_or_equal"
        /\ VersionSeen(uLast.rule, uLast.before) # <<>>
        /\ Comparable(VersionSeen(uLast.rule, uLast.before))
        /\ Comparable(uSync))
       => (VersionSeen(uLast.rule, uLast.result.content) = uSync
             <=> ~Newer(VersionSeen(uLast.rule, uLast.before), uSync))

----------------------------------------------------------------------------
(* Properties of ActionHandler.apply                                        *)

\* the value the last action found at its key before it ran
FoundBefore == getNestedValue(parseContent(aLast.before).data, aLast.action.key)

\* C2: apply with a replace_value action whose value equals the value the
\* document already holds at the key returns no Change.
C2_SameValueReportsNoChange ==
    (/\ aLast.action.type = "replace_value"
     /\ aLast.action.value # Undef
     /\ FoundBefore = aLast.action.value)
    => aLast.result.change = <<>>

\* C9: apply returns a Change iff the content it returns differs from the
\* content it was given, and never more than one Change.
C9_ChangeIffContentDiffers ==
    /\ Len(aLast.result.change) <= 1
    /\ (aLast.result.change # <<>>) <=> (aLast.result.content # aLast.before)

----------------------------------------------------------------------------
(* Properties of AugmentationEngine.processFile                             *)

\* C1: processFile is idempotent: called again on the content it returned,
\* with the same rules, path and context, it returns changed = false.
C1_SecondCallUnchanged ==
    (eRun = 2 /\ ePc = "done") => ~Result.changed

\* the applicable rule of a name (the names of a rule set differ)
RuleNamed(name) ==
    eApplicable[CHOOSE i \in 1..Len(eApplicable) : eApplicable[i].name = name]

\* every condition of the rule is true on the content
EveryConditionTrue(rule, content) ==
    \A i \in 1..Len(rule.conditions) : evaluate(rule.conditions[i], content)

\* the content processFile holds after the first i entries of the log
HeldAfter(i) ==
    IF i < Len(eLog) THEN
        (IF eLog[i + 1].kind = "conditions" THEN eLog[i + 1].content ELSE eLog[i].content)
    ELSE eProcessed

\* C6: a selected rule's actions run iff every one of its conditions is true on
\* the current content; a rule without conditions always runs; when a condition
\* is false no action of the rule runs and the content stays as it was.
C6_RunsIffEveryConditionTrue ==
    \A i \in 1..Len(eLog) :
        eLog[i].kind = "conditions" =>
            /\ eLog[i].pass <=> EveryConditionTrue(RuleNamed(eLog[i].rule), eLog[i].content)
            /\ RuleNamed(eLog[i].rule).conditions = <<>> => eLog[i].pass
            /\ (eLog[i].pass /\ i = Len(eLog)) => (ePc = "action" /\ eAct = 1)
            /\ (eLog[i].pass /\ i < Len(eLog)) =>
                  /\ eLog[i + 1].rule = eLog[i].rule
                  /\ eLog[i + 1].kind = "action" \/ RuleNamed(eLog[i].rule).actions = <<>>
            /\ ~eLog[i].pass =>
                  /\ i < Len(eLog) => eLog[i + 1].kind = "conditions"
                  /\ HeldAfter(i) = eLog[i].content
                  /\ \A j \in 1..Len(eLog) : eLog[j].kind = "action" => eLog[j].rule # eLog[i].rule

\* a rule of two conditions was refused although its first condition is true,
\* and a rule with conditions ran
C6_Witness ==
    /\ ePc = "done"
    /\ \E i \in 1..Len(eLog) :
          /\ eLog[i].kind = "conditions"
          /\ ~eLog[i].pass
          /\ Len(RuleNamed(eLog[i].rule).conditions) = 2
          /\ evaluate(RuleNamed(eLog[i].rule).conditions[1], eLog[i].content)
    /\ \E i \in 1..Len(eLog) :
          /\ eLog[i].kind = "conditions"
          /\ eLog[i].pass
          /\ RuleNamed(eLog[i].rule).conditions # <<>>

\* the actions of a rule applied one after the other, each to the content the
\* one before returned
RECURSIVE InSequence(_, _, _, _)
InSequence(actions, content, context, name) ==
    IF actions = <<>> THEN [content |-> content, changes |-> <<>>]
    ELSE LET one == apply(Head(actions), content, context)
             rest == InSequence(Tail(actions), one.content, context, name)
         IN [content |-> rest.content,
             changes |-> (IF one.change # <<>>
                          THEN <<[one.change[1] EXCEPT !.rule = name]>> ELSE <<>>)
                         \o rest.changes]

\* the rules applied in load order, each to the content the rules before left
RECURSIVE InLoadOrder(_, _, _)
InLoadOrder(rules, content, context) ==
    IF rules = <<>> THEN [content |-> content, changes |-> <<>>]
    ELSE LET ran == IF EveryConditionTrue(Head(rules), content)
                    THEN InSequence(Head(rules).actions, content, context, Head(rules).name)
                    ELSE [content |-> content, changes |-> <<>>]
             rest == InLoadOrder(Tail(rules), ran.content, context)
         IN [content |-> rest.content, changes |-> ran.changes \o rest.changes]

\* C7: rules are processed in load order and actions in list order, each on
\* the content the one before produced: newContent is the sequential
\* composition of the applied actions and changes lists them in that order.
C7_SequentialComposition ==
    /\ \A i \in 1..Len(eLog) :
          /\ (eLog[i].kind = "action" /\ eLog[i].index > 1) =>
                /\ eLog[i - 1].kind = "action"
                /\ eLog[i - 1].rule = eLog[i].rule
                /\ eLog[i - 1].index = eLog[i].index - 1
                /\ eLog[i].content = eLog[i - 1].result.content
          /\ (eLog[i].kind = "action" /\ eLog[i].index = 1) =>
                /\ eLog[i - 1].kind = "conditions"
                /\ eLog[i].content = eLog[i - 1].content
          /\ eLog[i].kind = "action" =>
                eLog[i].action = RuleNamed(eLog[i].rule).actions[eLog[i].index]
    /\ ePc = "done" =>
          /\ Result.newContent = InLoadOrder(eApplicable, eInput, eCtx).content
          /\ Result.changes = InLoadOrder(eApplicable, eInput, eCtx).changes

\* two rules were applied, the second on the content the first changed
C7_Witness ==
    /\ ePc = "done"
    /\ Len(eApplied) = 2
    /\ \E i \in 1..Len(eLog) :
          /\ eLog[i].kind = "conditions"
          /\ eLog[i].rule = eApplied[2]
          /\ eLog[i].content # eInput
    /\ \E i \in 1..Len(eLog) : eLog[i].kind = "action" /\ eLog[i].index = 2
    /\ Result.newContent # eInput

\* some action of the rule returned a Change in this call
ProducedChange(name) ==
    \E i \in 1..Len(eLog) :
        eLog[i].kind = "action" /\ eLog[i].rule = name /\ eLog[i].result.change # <<>>

Listed(name) == \E i \in 1..Len(eApplied) : eApplied[i] = name

\* C8: in a processFile result appliedRules holds a rule's name iff one of the
\* rule's actions produced a Change in this call, and every Change carries
\* the name of a listed rule.
C8_AppliedIffProducedChange ==
    ePc = "done" =>
        /\ \A r \in 1..Len(eApplicable) :
              Listed(eApplicable[r].name) <=> ProducedChange(eApplicable[r].name)
        /\ \A i \in 1..Len(eApplied) :
              \E r \in 1..Len(eApplicable) : eApplicable[r].name = eApplied[i]
        /\ \A i \in 1..Len(Result.changes) : Listed(Result.changes[i].rule)

\* one rule is listed with its Change; another whose conditions held and whose
\* actions were all no-ops is not
C8_Witness ==
    /\ ePc = "done"
    /\ Len(eApplied) = 1
    /\ Len(eChanges) = 1
    /\ \E i \in 1..Len(eLog) :
          /\ eLog[i].kind = "end"
          /\ ~eLog[i].applied
          /\ ~Listed(eLog[i].rule)
          /\ RuleNamed(eLog[i].rule).actions # <<>>

\* C10: an action of unknown type leaves the content unchanged and yields no
\* Change, the actions after it are still applied, a condition of unknown type
\* is false, and no error reaches the caller of processFile.
C10_UnknownKindsAreSkipped ==
    \A i \in 1..Len(eLog) :
        /\ (eLog[i].kind = "action" /\ eLog[i].action.type \notin ActionTypes) =>
              /\ ~eLog[i].result.threw
              /\ eLog[i].result.content = eLog[i].content
              /\ eLog[i].result.change = <<>>
              /\ i = Len(eLog) => (ePc = "action" /\ eAct = eLog[i].index + 1)
              /\ (i < Len(eLog) /\ eLog[i].index < Len(RuleNamed(eLog[i].rule).actions)) =>
                    /\ eLog[i + 1].kind = "action"
                    /\ eLog[i + 1].rule = eLog[i].rule
                    /\ eLog[i + 1].index = eLog[i].index + 1
        /\ eLog[i].kind = "action" => ~eLog[i].result.threw
        /\ eLog[i].kind = "conditions" =>
              \A c \in 1..Len(RuleNamed(eLog[i].rule).conditions) :
                  RuleNamed(eLog[i].rule).conditions[c].type
                        \notin {"yaml_has_key", "json_has_key", "value_matches",
                                "file_exists", "custom"}
                  => /\ ~evaluate(RuleNamed(eLog[i].rule).conditions[c], eLog[i].content)
                     /\ ~eLog[i].pass

\* a rule with a condition of unknown type was refused, and the action after
\* an action of unknown type made its change
C10_Witness ==
    /\ ePc = "done"
    /\ \E i \in 1..Len(eLog) :
          /\ eLog[i].kind = "conditions"
          /\ ~eLog[i].pass
          /\ Len(RuleNamed(eLog[i].rule).conditions) = 2
          /\ RuleNamed(eLog[i].rule).conditions[2].type = "regex_matches"
    /\ \E i \in 1..(Len(eLog) - 1) :
          /\ eLog[i].kind = "action"
          /\ eLog[i].action.type \notin ActionTypes
          /\ eLog[i + 1].kind = "action"
          /\ eLog[i + 1].result.change # <<>>


\* the conditions of a rule that read the document
ReadsDocument(condition) ==
    condition.type \in {"yaml_has_key", "json_has_key", "value_matches"}

\* C11: on a content that parses as neither JSON nor YAML every action returns
\* the content as it came with no Change, every yaml_has_key, json_has_key and
\* value_matches condition is false, and nothing is thrown.
C11_UnparseableIsLeftAlone ==
    \A i \in 1..Len(eLog) :
        /\ (eLog[i].kind = "action" /\ eLog[i].content.kind = "opaque") =>
              /\ ~eLog[i].result.threw
              /\ eLog[i].result.content = eLog[i].content
              /\ eLog[i].result.change = <<>>
        /\ (eLog[i].kind = "conditions" /\ eLog[i].content.kind = "opaque") =>
              \A c \in 1..Len(RuleNamed(eLog[i].rule).conditions) :
                  ReadsDocument(RuleNamed(eLog[i].rule).conditions[c]) =>
                      /\ ~evaluate(RuleNamed(eLog[i].rule).conditions[c], eLog[i].content)
                      /\ ~eLog[i].pass

\* on a broken document a replace_value and a set_value action ran and a rule
\* asking for a key was refused
C11_Witness ==
    /\ ePc = "done"
    /\ eInput.kind = "opaque"
    /\ \E i, j \in 1..Len(eLog) :
          /\ eLog[i].kind = "action"
          /\ eLog[i].action.type = "replace_value"
          /\ eLog[j].kind = "conditions"
          /\ ~eLog[j].pass
          /\ \E c \in 1..Len(RuleNamed(eLog[j].rule).conditions) :
                ReadsDocument(RuleNamed(eLog[j].rule).conditions[c])
    /\ Result.newContent = eInput

----------------------------------------------------------------------------
(* Properties of RuleLoader                                                 *)

\* the calls issued so far
Issued == {c \in DOMAIN lCalls : lCalls[c].pc # "idle"}

\* the first call issued after the latest reset()
FirstSince(c) ==
    /\ c \in Issued
    /\ lCalls[c].resets = lResets
    /\ \A d \in Issued : d < c => lCalls[d].resets < lResets

\* C12: once a loadRules() has completed, every later loadRules() returns the
\* same rules without reading a source, until reset(); after reset() getRules()
\* is empty and the next loadRules() reads the sources again.
C12_CachedUntilReset ==
    /\ \A c1, c2 \in Done :
          (c1 \in lCalls[c2].after /\ lCalls[c1].doneAt = lCalls[c2].resets) =>
              /\ lCalls[c2].result = lCalls[c1].result
              /\ lCalls[c2].reads = 0
    /\ (lResets > 0 /\ \A c \in Issued : c \in Done /\ lCalls[c].doneAt < lResets) =>
          lRules = <<>>
    /\ \A c \in Done :
          (lResets > 0 /\ FirstSince(c)) => lCalls[c].reads = Len(Sources)

\* the source reads of the calls 1..n together
RECURSIVE ReadsUpTo(_)
ReadsUpTo(n) == IF n = 0 THEN 0 ELSE lCalls[n].reads + ReadsUpTo(n - 1)

\* C13: loadRules() calls issued before the cache is filled act as one
\* initialization: every source is read once, and all the calls return the
\* same rule set.
C13_SingleFlight ==
    lResets = 0 =>
        /\ ReadsUpTo(MaxCalls) <= Len(Sources)
        /\ \A c1, c2 \in Done : lCalls[c1].result = lCalls[c2].result

\* the rules of a source that is present, those with enabled: false left out
KeptOf(s) ==
    IF lSrc[s].state = "ok"
    THEN SelectSeq(lSrc[s].rules, LAMBDA r : r.enabled \in {"true", "undefined"})
    ELSE <<>>

\* C14: the loaded rule set is the concatenation, in the order global, project,
\* main, env, of the rules of the sources that are present, without the rules
\* with enabled false; a rule of one source never replaces one of another.
C14_ConcatenationOfSources ==
    \A c \in Done :
        lCalls[c].result =
            KeptOf("global") \o KeptOf("project") \o KeptOf("main") \o KeptOf("env")

\* three sources with a rule of the same name, one of them with a disabled
\* rule, were merged
C14_Witness ==
    /\ lSrc["global"].state = "ok"
    /\ Len(lSrc["project"].rules) = 2
    /\ lSrc["main"].state = "absent"
    /\ lSrc["env"].state = "ok"
    /\ 1 \in Done
    /\ Len(lCalls[1].result) = 3
    /\ \A i \in 1..3 : lCalls[1].result[i].name = "shared"

Holds(rules, r) == \E i \in 1..Len(rules) : rules[i] = r

\* C15: a source that cannot be read or parsed contributes no rule, the other
\* sources are still read and contribute theirs, and loadRules() returns.
C15_BrokenSourceIsSkipped ==
    \A c \in Done :
        \A s \in DOMAIN lSrc :
            lSrc[s].state = "broken" =>
                /\ lCalls[c].reads \in {0, Len(Sources)}
                /\ \A i \in 1..Len(lCalls[c].result) : lCalls[c].result[i].description # s
                /\ \A t \in DOMAIN lSrc :
                      \A i \in 1..Len(lSrc[t].rules) :
                          (lSrc[t].state = "ok" /\ lSrc[t].rules[i].enabled # "false")
                          => Holds(lCalls[c].result, lSrc[t].rules[i])

\* the project file is broken; the sources before and after it gave their rules
C15_Witness ==
    /\ lSrc["global"].state = "ok"
    /\ lSrc["project"].state = "broken"
    /\ lSrc["env"].state = "ok"
    /\ 1 \in Done
    /\ lCalls[1].reads = Len(Sources)
    /\ Holds(lCalls[1].result, [name |-> "shared", description |-> "global", enabled |-> "undefined"])
    /\ Holds(lCalls[1].result, [name |-> "shared", description |-> "env", enabled |-> "true"])

----------------------------------------------------------------------------
(* Rule selection of processFile                                            *)

\* the part of a path after its last "/"
BaseName(path) ==
    CHOOSE b \in {SubSeq(path, i, Len(path)) : i \in 1..Len(path)} :
        /\ \A j \in 1..Len(b) : b[j] # "/"
        /\ Len(b) = Len(path) \/ path[Len(path) - Len(b)] = "/"

\* some pattern of the rule matches the base name of the file
Targets(rule) ==
    \E i \in 1..Len(rule.target_files) : minimatch(BaseName(eFile), rule.target_files[i])

Considered(name) ==
    \E i \in 1..Len(eLog) : eLog[i].kind = "conditions" /\ eLog[i].rule = name

----------------------------------------------------------------------------
(* Preview of updatePreservedFiles                                          *)

\* C17: updatePreservedFiles with dryRun = true writes no file of the target
\* directory and returns the modified flags and Change lists the same call
\* with dryRun = false returns.
C17_PreviewMatchesRun ==
    /\ uDry.file = uDry.was
    /\ uPc \in {"done", "threw"} =>
          /\ Len(uDry.results) = Len(uResults)
          /\ \A i \in 1..Len(uResults) :
                /\ uDry.results[i].modified = uResults[i].modified
                /\ uDry.results[i].changes = uResults[i].changes

----------------------------------------------------------------------------
(* Frame of an action                                                       *)

\* key paths looked at before and after an action
Probes ==
    {Key.version, Key.artifact, Key.tags, Key.env, Key.imageTag, Key.versionMajor,
     <<"name">>, <<"image">>, <<"other_config">>}

IsPrefix(p, q) == Len(p) <= Len(q) /\ SubSeq(q, 1, Len(p)) = p

\* the value the document of a content holds at a key path
ValueAt(content, key) == getNestedValue(parseContent(content).data, key)

\* C18: an action leaves the value at every key path it does not target as it
\* was: writing a dotted path creates the missing maps on the way and sets the
\* leaf; it changes no sibling and no value an ancestor already holds.
C18_UntargetedKeysKept ==
    aLast.result.change # <<>> =>
        \A p \in Probes :
            /\ (/\ ~IsPrefix(KeySegments(p), KeySegments(aLast.action.key))
                /\ ~IsPrefix(KeySegments(aLast.action.key), KeySegments(p)))
               => ValueAt(aLast.result.content, p) = ValueAt(aLast.before, p)
            /\ (/\ IsPrefix(KeySegments(p), KeySegments(aLast.action.key))
                /\ p # aLast.action.key
                /\ ValueAt(aLast.before, p).t \in {"str", "arr"})
               => ValueAt(aLast.result.content, p) = ValueAt(aLast.before, p)

----------------------------------------------------------------------------
(* Format of the content processFile returns                                *)

\* C19: an action that modifies a document prints it in the format detected
\* for its input, JSON for JSON and YAML for YAML, so that the content
\* processFile returns has the format of the content it was given.
C19_FormatIsKept ==
    /\ \A i \in 1..Len(eLog) :
          (eLog[i].kind = "action" /\ eLog[i].result.change # <<>>) =>
              /\ eLog[i].content.kind \in {"json", "yaml"}
              /\ eLog[i].result.content.kind = eLog[i].content.kind
    /\ eProcessed.kind = eInput.kind
    /\ eContent.kind = eInput.kind

\* a JSON file was changed by two rules and is still JSON
C19_Witness ==
    /\ ePc = "done"
    /\ eInput.kind = "json"
    /\ Len(eApplied) = 2
    /\ Len(eChanges) >= 2
    /\ Result.newContent # eInput
    /\ Result.newContent.kind = "json"

----------------------------------------------------------------------------
(* Placeholders in action values                                            *)

\* a text that holds a placeholder, {name} or {{name}}
HasPlaceholder(s) == \E i \in 1..Len(s) : s[i] = "{"

\* C20: replace_value with a value that is a placeholder for the tag without
\* its v ({tag_without_v} or {{version}}) writes that version at the key,
\* never the placeholder text.
C20_ActionValuesExpanded ==
    (/\ aLast.action.type = "replace_value"
     /\ aLast.result.change # <<>>
     /\ aLast.action.value.t = "str"
     /\ HasPlaceholder(aLast.action.value.s)
     /\ aCtx.gitTag # <<>>)
    => ValueAt(aLast.result.content, aLast.action.key) = Str(StripV(aCtx.gitTag))

----------------------------------------------------------------------------
(* Appending to an array                                                    *)

\* the value is an element of the array
Contains(array, value) == \E i \in 1..Len(array.a) : array.a[i] = value

\* C21: append_to_array on an array that already holds the value leaves the
\* array as it was.
C21_AppendOnlyIfAbsent ==
    (/\ aLast.action.type = "append_to_array"
     /\ ValueAt(aLast.before, aLast.action.key).t = "arr"
     /\ Contains(ValueAt(aLast.before, aLast.action.key), aLast.action.value))
    => ValueAt(aLast.result.content, aLast.action.key)
           = ValueAt(aLast.before, aLast.action.key)

----------------------------------------------------------------------------
(* The result of updating one file (FileUpdateService)                      *)

\* the result updatePreservedFiles pushed last
LastResult == uResults[Len(uResults)]

\* C25: an update rule of unknown type is a no-op: the update of the file
\* goes on with the remaining rules, raises no error, and the changes the
\* earlier rules made are written and reported.
C25_UnknownUpdateRuleIsNoOp ==
    /\ uPc # "threw"
    /\ (uPc = "done" /\ uLast.rule.type = "xml_field") =>
          /\ ~LastResult.error
          /\ LastResult.changes = uChanges
          /\ (uChanges # <<>> => uFile = uDoc)

\* C30: a file is reported as modified, and written, only if the updated
\* content differs from the content read: rules that leave the content as it
\* was give modified = false and no changes.
C30_ModifiedOnlyIfContentDiffers ==
    (uPc = "done" /\ uDoc = uOrig) =>
        /\ ~LastResult.modified
        /\ LastResult.changes = <<>>

----------------------------------------------------------------------------
(* Format detection                                                         *)

\* C26: content that starts with { or [ and is not JSON is read as YAML: an
\* action finds in it the document a YAML reader finds, and acts on it as it
\* acts on the same document written in block YAML.
C26_FallsBackToOtherFormat ==
    (aCount > 0 /\ aLast.before.kind = "flow") =>
        /\ parseContent(aLast.before).data = parseYAML(aLast.before).data
        /\ aLast.result.change
               = apply(aLast.action, [aLast.before EXCEPT !.kind = "yaml"], aCtx).change

----------------------------------------------------------------------------
(* What a version update rewrites                                           *)

\* the value with the version token a match found replaced by newVersion,
\* everything before and after the token as it was
TokenReplaced(pattern, value, m, newVersion) ==
    CASE pattern = Regex.artifact ->
            m.g1 \o newVersion \o SubSeq(value, Len(m.g1) + Len(m.g2) + 1, Len(value))
      [] OTHER -> SubSeq(value, 1, Len(value) - Len(m.g1)) \o newVersion

ActionKeepsAround ==
    LET old == ValueAt(aLast.before, aLast.action.key)
        new == ValueAt(aLast.result.content, aLast.action.key)
    IN /\ new = Str(TokenReplaced(aLast.action.version_pattern, old.s,
                                  MatchVersionPattern(aLast.action.version_pattern, old.s),
                                  getVersionFromSource(aLast.action.version_source, aCtx)))
       /\ aLast.result.change[1].oldValue = old
       /\ aLast.result.change[1].newValue = new

PatternKeepsAround(old, new, m) ==
    new = m.prefix \o <<"-">> \o uSync
              \o SubSeq(old, Len(m.prefix) + Len(m.version) + 2, Len(old))

\* C27: a version update changes the version token only: the new value is
\* the old one with the matched token replaced by the new version, prefix and
\* suffix kept, and the Change holds the whole old and new values.
C27_OnlyVersionTokenChanges ==
    /\ (/\ aCount > 0
        /\ aLast.action.type = "update_version_in_value"
        /\ aLast.result.change # <<>>) => ActionKeepsAround
    /\ (/\ uStep > 0
        /\ RuleType(uLast.rule) = "pattern"
        /\ uLast.result.modified) =>
          \A i \in 1..Len(uLast.before.lines) :
              uLast.result.content.lines[i] # uLast.before.lines[i] =>
                  /\ PatternKeepsAround(uLast.before.lines[i].v,
                                        uLast.result.content.lines[i].v,
                                        createRegexFromPattern(uLast.before.lines[i].v))
                  /\ \E c \in 1..Len(uLast.result.changes) :
                        /\ uLast.result.changes[c].oldValue = uLast.before.lines[i].v
                        /\ uLast.result.changes[c].newValue = uLast.result.content.lines[i].v

----------------------------------------------------------------------------
(* Properties of syncDirectories, the rate limiters and SyncService         *)

\* C22: after a syncDirectories that is no dry run, every preserved file the
\* target held before the call holds the content it had, whatever the source
\* directory holds.
C22_PreservedFilesKeepContent ==
    (dPc = "done" /\ ~dOptions.dryRun) =>
        \A i \in 1..Len(dOptions.preserveFiles) :
            existsSync(dBefore, dOptions.preserveFiles[i]) =>
                dTarget[dOptions.preserveFiles[i]] = dBefore[dOptions.preserveFiles[i]]

\* the calls of fetchFn for the domain in the window opened at an instant
FetchesIn(domain, from) ==
    {i \in 1..Len(rLog) :
        /\ rLog[i].kind = "fetch"
        /\ rLog[i].domain = domain
        /\ rLog[i].at >= from
        /\ rLog[i].at < from + rConfig.windowMs}

\* C23: in a window of windowMs that a limiter opened, fetchFn is called at
\* most maxRequests times for the domain of the limiter; the requests beyond
\* wait for a later window.
C23_AtMostMaxRequestsPerWindow ==
    \A w \in 1..Len(rLog) :
        rLog[w].kind = "window" =>
            Cardinality(FetchesIn(rLog[w].domain, rLog[w].at)) <= rConfig.maxRequests

\* C24: every promise the client returned settles in the end.
C24_EveryCallSettles ==
    \A i \in 1..MaxClientCalls :
        (Len(gCalls) >= i) ~> (Len(gCalls) >= i /\ gCalls[i].state # "pending")

\* the place of a step in the order clone, branch, sync, commit, push, pr
Rank(step) ==
    CASE step = "clone" -> 1 [] step = "branch" -> 2 [] step = "sync" -> 3
      [] step = "commit" -> 4 [] step = "push" -> 5 [] step = "pr" -> 6

\* an earlier step of the same target with that name and outcome
Before(i, step, outcome) ==
    \E j \in 1..(i - 1) :
        /\ sLog[j].target = sLog[i].target
        /\ sLog[j].step = step
        /\ sLog[j].outcome = outcome

\* C28: the steps made for a target follow the order clone, branch, sync,
\* commit, push, pull request; a dry run makes no commit, push or pull
\* request; a pull request is made only after a push that succeeded, a push
\* only after a commit that held changes.
C28_StepsInOrder ==
    \A i \in 1..Len(sLog) :
        /\ \A j \in 1..(i - 1) :
              sLog[j].target = sLog[i].target => Rank(sLog[j].step) < Rank(sLog[i].step)
        /\ sOptions.dryRun => sLog[i].step \notin {"commit", "push", "pr"}
        /\ sLog[i].step = "pr" => Before(i, "push", "ok")
        /\ sLog[i].step = "push" => Before(i, "commit", "ok")

C28_Witness ==
    /\ sPc = "returned"
    /\ ~sOptions.dryRun
    /\ \E i \in 1..Len(sLog) : sLog[i].step = "pr" /\ sLog[i].outcome = "ok"
    /\ \E i \in 1..Len(sLog) : sLog[i].step = "commit" /\ sLog[i].outcome = "No changes"

\* C29: when execute returns or throws, no temporary directory it made is
\* left, whichever clone failed.
C29_NoTempDirLeft ==
    sPc \in {"returned", "threw"} => sDirs = {}
====
